---- MODULE Spec2Model ----
(***************************************************************************)
(* Model of the hacollector protocol engine: LGACPacket / LGACPacketHandler *)
(* (src/hacollector/classes/lgac485.py), TCPComm                            *)
(* (src/hacollector/classes/comm.py) and the Hub scan loop                  *)
(* (src/hacollector/classes/hub.py).                                        *)
(*                                                                         *)
(* Three asyncio tasks run on one event loop (hacollector.py:102-106):      *)
(*   "W"  async_lgac_main_write_loop   (command consumer)                   *)
(*   "S"  Hub.async_scan_thread        (periodic scheduler)                 *)
(*   "D"  async_scan_all_devices       (bootstrap discovery)                *)
(* A task's pc is the await at which it is suspended; the code between two  *)
(* awaits runs atomically on the event loop.  Wall-clock durations are      *)
(* abstracted: a timer may fire at any await it covers.                     *)
(*                                                                         *)
(* Names that lgac485.py uses without importing them (PAYLOAD_ONLINE,       *)
(* PAYLOAD_OFFLINE, ColorLog) are read as the values consts.py / utils.py   *)
(* give them; logging calls are not modelled.                               *)
(***************************************************************************)
EXTENDS Integers, Sequences, FiniteSets, TLC

\* ------------------------------------------------------------------ bounds
MaxCommands == 2      \* commands the message bus enqueues in one run
MaxClock    == 2      \* largest value sampled from time.monotonic()
ScanInterval == 0     \* scan_interval of the configuration, in clock units
MaxPending  == 16     \* bytes sent by the peer and not yet consumed by the engine
MaxNoise    == 2      \* bytes in front of the frames of a received stream
MaxBuffered == 4      \* bytes in TCPComm.read_buffer when a header hunt starts
MaxArriving == 2      \* bytes that arrive while the header hunt runs

\* ------------------------------------------------------- program constants
MAX_READ_ERROR_RETRY  == 3
RESPONSE_PACKET_SIZE  == 16
HEADER                == 16      \* 0x10, the response marker
MaxDialAttempts       == 3       \* range(1, 4)
FullScanRange         == 16      \* range(16)
ChecksumMask          == 85      \* 0x55
TEMPERATURE_ADJUST_x100 == 50    \* cfg.TEMPERATURE_ADJUST = 0.5, in 1/100 degree

\* ------------------------------------------------------------- byte helpers
RECURSIVE XorBits(_, _, _)
XorBits(a, b, n) ==
    IF n = 0 THEN 0
    ELSE (((a % 2) + (b % 2)) % 2) + 2 * XorBits(a \div 2, b \div 2, n - 1)

Xor8(a, b) == XorBits(a, b, 8)

RECURSIVE SumSeq(_)
SumSeq(s) == IF s = <<>> THEN 0 ELSE Head(s) + SumSeq(Tail(s))

Front(s) == SubSeq(s, 1, Len(s) - 1)

\* Sequences over B of length 0..n
RECURSIVE SeqsUpTo(_, _)
SeqsUpTo(B, n) ==
    IF n = 0 THEN { <<>> }
    ELSE LET shorter == SeqsUpTo(B, n - 1) IN
         shorter \cup { Append(q, b) : q \in shorter, b \in B }

\* calc_checksum of make_send_packet
calc_checksum(body) == Xor8(SumSeq(body) % 256, ChecksumMask)

\* LGACPacketHandler.is_checksum_ok
is_checksum_ok(body) == body[Len(body)] = Xor8(SumSeq(Front(body)) % 256, ChecksumMask)

\* bytearray.index(0x10): position of the first marker, 0 when there is none
RECURSIVE IndexOf(_, _)
IndexOf(s, b) ==
    IF s = <<>> THEN 0
    ELSE IF Head(s) = b THEN 1
    ELSE LET r == IndexOf(Tail(s), b) IN IF r = 0 THEN 0 ELSE r + 1

DropFirst(s, n) == SubSeq(s, n + 1, Len(s))

\* On a checksum failure the hunting loop deletes _recv_buffer[0:1].
DropOnBadChecksum_Window(b) == DropFirst(b, RESPONSE_PACKET_SIZE)

DropOnBadChecksum(b) == DropFirst(b, 1)

\* As HuntLoop with the whole buffer cleared when a frame is returned.
RECURSIVE HuntLoop_ClearRest(_)
HuntLoop_ClearRest(buf) ==
    IF Len(buf) = 0 THEN [frame |-> <<>>, buf |-> <<>>]
    ELSE LET i == IndexOf(buf, HEADER) IN
         IF i = 0 THEN [frame |-> <<>>, buf |-> <<>>]
         ELSE LET b == DropFirst(buf, i - 1) IN
              IF Len(b) < RESPONSE_PACKET_SIZE THEN [frame |-> <<>>, buf |-> b]
              ELSE LET p == SubSeq(b, 1, RESPONSE_PACKET_SIZE) IN
                   IF is_checksum_ok(p)
                   THEN [frame |-> p, buf |-> <<>>]
                   ELSE HuntLoop_ClearRest(DropOnBadChecksum(b))

\* The inner "Packet Hunting Loop" of async_read_packet: the frame found (or
\* <<>>) and what is left in _recv_buffer.
RECURSIVE HuntLoop(_)
HuntLoop(buf) ==
    IF Len(buf) = 0 THEN [frame |-> <<>>, buf |-> <<>>]
    ELSE LET i == IndexOf(buf, HEADER) IN
         IF i = 0 THEN [frame |-> <<>>, buf |-> <<>>]
         ELSE LET b == DropFirst(buf, i - 1) IN
              IF Len(b) < RESPONSE_PACKET_SIZE THEN [frame |-> <<>>, buf |-> b]
              ELSE LET p == SubSeq(b, 1, RESPONSE_PACKET_SIZE) IN
                   IF is_checksum_ok(p)
                   THEN [frame |-> p, buf |-> DropFirst(b, RESPONSE_PACKET_SIZE)]
                   ELSE HuntLoop(DropOnBadChecksum(b))

\* ------------------------------------------------------------ response frames
\* A 16-byte response as the bus adapter sends it for unit `id`
\* (FMT_body_read, set_packet_data): head, action, 2 x unknown, group+id,
\* unknown, mode, set temp, current temp, pipe1, pipe2, outer sensor, unknown,
\* model, fixed value, checksum.  Mode 0x10 is cool / fixed / low.
ResponseBody(id) == <<HEADER, 1, 0, 0, id, 0, 16, 8, 118, 120, 124, 0, 0, 1, 0>>

ResponseFrame(id) == Append(ResponseBody(id), calc_checksum(ResponseBody(id)))

\* What the peer puts on the line after it received a request for `id`:
\* nothing (no such unit) or the frame of that unit.
PeerReplies(id) == { <<>>, ResponseFrame(id) }

\* ------------------------------------------------------------ configuration
\* A room key is a two-hex-digit string, held as its two digit values: the
\* keys "00", "01" and "0a".  Configurations with one room and with two.
OneRoom == { << <<0, 0>> >>, << <<0, 10>> >> }

TwoRooms == { << <<0, 0>>, <<0, 1>> >>, << <<0, 0>>, <<0, 10>> >> }

\* int(r_id, 16) of prepare_enabled and async_scan_all_devices
ParseHex(k) == 16 * k[1] + k[2]

\* int(room_no_str) of async_scan_aircon_status and handle_aircon_mqtt_message:
\* a decimal parse, which raises ValueError on the digits a-f (-1 here).
ParseDec(k) == IF k[1] <= 9 /\ k[2] <= 9 THEN 10 * k[1] + k[2] ELSE -1

\* Aircon.last_availability_status before the first notification
NeverNotified == "unset"

Tasks == {"W", "S", "D"}
\* Coroutines that call connect_async_socket / close_async_socket directly
Callers == {"a", "b", "c"}
NoTask == "none"
None == <<>>

VARIABLES
    rooms,              \* config.rooms: sequence of room keys (room i is named by its index)
    full_scan,          \* config.full_scan_on_boot
    pc,                 \* per task: the await it is suspended at
    arg,                \* per task: (aircon_no, count_error, command serial) of its call
    res,                \* per task: value returned by its last get_status / set_mode call
    lock,               \* LGACPacketHandler._lock: the task holding it
    waiters,            \* asyncio.Lock._waiters, FIFO
    conn,               \* TCPComm.writer: "none" or "open"
    net,                \* the path to the adapter: "up", "refused" (resets), "silent" (drops)
    attempt,            \* connect_async_socket: attempt of the running dial loop
    rx,                 \* bytes received on the socket, not yet read
    wire,               \* bytes the peer has sent, not yet arrived
    recv_buffer,        \* LGACPacketHandler._recv_buffer
    read_error_count,   \* LGACPacketHandler.read_error_count
    ts_calls,           \* callbacks handed over by call_soon_threadsafe, not yet run
    command_queue,      \* LGACPacketHandler.command_queue
    now,                \* last value of time.monotonic() sampled by the scan thread
    tick,               \* per device: Aircon.scan.tick
    idx,                \* scan thread: position in self.aircon
    pos,                \* discovery: position in its probe list
    last_availability_status,   \* per device
    \* history variables
    serial,             \* commands enqueued so far
    dequeued,           \* serials in the order the write loop took them
    handed,             \* per serial: writer.write calls made with its frame
    peer_got,           \* per serial: times its frame reached the peer
    avail_hist,         \* per device: the last two availability notifications
    avail_by,           \* per device: the task that sent the last one
    ha_state,           \* the last call of notify_to_homeassistant
    fail_run,           \* consecutive counted failed transactions
    forced,             \* the last counted failure force-closed the transport
    after_close,        \* whether a hunt has begun since handle_max_read_error() last ran
    escaped,            \* an exception left get_status / set_mode
    write_ret,          \* how the last async_write_one_chunk call went
    aircon_info,        \* the Aircon.Info the last call with a result returned
    probed,             \* the calls async_scan_all_devices made: <<id, count_error>>
    observe,            \* which history variables this specification records
    stream,             \* hunting scenario: everything the peer sends
    \* transport scenario
    conn_lock,          \* TCPComm._conn_lock: the caller holding it
    conn_waiters,       \* its waiters, FIFO
    caller,             \* per direct caller of TCPComm: the await it is suspended at
    read_buffer,        \* TCPComm.read_buffer
    header,             \* the header argument of the running async_ensure_header call
    last_err,           \* connect_async_socket: last_err of the running dial loop
    dialled,            \* history: how the open_connection calls of that loop ended
    connection_reset,   \* TCPComm.connection_reset
    get_data,           \* the running async_get_data call of coroutine "a"
    \* codec scenario
    cmd,                \* the arguments of make_new_packet
    packet,             \* the bytes make_send_packet returned, possibly altered since
    rawdata,            \* the bytes given to LGACPacket(rawdata)
    decoded,            \* the LGACPacket built from rawdata
    cfg_TEMPERATURE_ADJUST  \* cfg.TEMPERATURE_ADJUST: <<type, value in 1/100 degree>>

\* The transaction lock of the engine serialises its calls of TCPComm, so that
\* _conn_lock is never contended there: the engine's actions leave it, and
\* the callers of the transport scenario, alone.
dialvars  == <<last_err, dialled>>
readvars  == <<connection_reset, get_data>>
linkvars  == <<conn_lock, conn_waiters, caller, read_buffer, header, dialvars, readvars>>
codecvars == <<cmd, packet, rawdata, decoded, cfg_TEMPERATURE_ADJUST>>
cfgvars   == <<rooms, full_scan, observe, stream, linkvars, codecvars>>
taskvars  == <<pc, arg, res>>
lockvars  == <<lock, waiters>>
commvars  == <<conn, attempt, rx>>
envvars   == <<net, wire>>
engvars   == <<recv_buffer, read_error_count>>
queuevars == <<ts_calls, command_queue, serial, dequeued>>
schedvars == <<now, tick, idx, pos>>
availvars == <<last_availability_status, avail_hist, avail_by, ha_state>>
histvars  == <<handed, peer_got, fail_run, forced, after_close, escaped, write_ret, aircon_info, probed>>

vars == <<rooms, full_scan, pc, arg, res, lock, waiters, conn, net, attempt,
          rx, wire, recv_buffer, read_error_count, ts_calls, command_queue, now, tick,
          idx, pos, last_availability_status, serial, dequeued, handed, peer_got,
          avail_hist, avail_by, ha_state, fail_run, forced, after_close, escaped, write_ret, aircon_info, probed,
          observe, stream, conn_lock, conn_waiters, caller, read_buffer, header,
          last_err, dialled, connection_reset, get_data,
          cmd, packet, rawdata, decoded, cfg_TEMPERATURE_ADJUST>>

\* No call has returned an Aircon.Info yet
NoInfo == [by |-> NoTask, opmode |-> "", action |-> ""]

\* "last_err: Optional[Exception] = None"
NoError == "None"

\* No dial loop has run yet.
UnusedDial == last_err = NoError /\ dialled = <<>>

\* async_get_data has not been called yet: at is the await the call is
\* suspended at, ret what the last call returned; detected and redial tell
\* whether that call saw the peer close and how its reconnect went.
NoCall == [at |-> "none", length |-> 0, timed |-> FALSE, ret |-> "none",
           detected |-> FALSE, redial |-> "no", reconnect |-> FALSE, before |-> "none"]

UnusedRead == connection_reset = FALSE /\ get_data = NoCall

\* notify_to_homeassistant has not been called yet
NotCalled == [by |-> NoTask, id |-> 0, info |-> None]

NoArg == [no |-> 0, count |-> TRUE, ser |-> 0]

\* MainConfig.load_env_values: the float of config.py stays when the
\* environment has no TEMPERATURE_ADJUST; otherwise cfg.TEMPERATURE_ADJUST
\* becomes what os.getenv returned, a str (env_x100 stands for its text).
load_env_values(env_x100) ==
    IF env_x100 = <<>> THEN <<"float", TEMPERATURE_ADJUST_x100>> ELSE <<"str", env_x100[1]>>

\* No packet is being built or decoded, and the environment sets no offset.
UnusedCodec ==
    /\ cmd = <<>> /\ packet = <<>> /\ rawdata = <<>> /\ decoded = <<>>
    /\ cfg_TEMPERATURE_ADJUST = load_env_values(<<>>)

\* The state after construction, but for the variables of the codec scenario.
IdleWith(o, fs, configs) ==
    /\ observe = o
    /\ rooms \in configs
    /\ full_scan = fs
    /\ pc = [t \in Tasks |-> IF t = "W" THEN "get" ELSE IF t = "S" THEN "sleep" ELSE "probe"]
    /\ arg = [t \in Tasks |-> NoArg]
    /\ res = [t \in Tasks |-> None]
    /\ lock = NoTask
    /\ waiters = <<>>
    /\ conn = "none"
    /\ net = "up"
    /\ attempt = 1
    /\ rx = <<>>
    /\ wire = <<>>
    /\ recv_buffer = <<>>
    /\ read_error_count = 0
    /\ ts_calls = <<>>
    /\ command_queue = <<>>
    /\ now = 0
    /\ tick = [d \in DOMAIN rooms |-> 0]
    /\ idx = 1
    /\ pos = 1
    /\ last_availability_status = [d \in DOMAIN rooms |-> NeverNotified]
    /\ serial = 0
    /\ dequeued = <<>>
    /\ handed = [c \in 1..MaxCommands |-> 0]
    /\ peer_got = [c \in 1..MaxCommands |-> 0]
    /\ avail_hist = [d \in DOMAIN rooms |-> <<>>]
    /\ avail_by = [d \in DOMAIN rooms |-> NoTask]
    /\ ha_state = NotCalled
    /\ fail_run = 0
    /\ forced = FALSE
    /\ after_close = "no"
    /\ escaped = FALSE
    /\ write_ret = "none"
    /\ aircon_info = NoInfo
    /\ probed = <<>>
    /\ conn_lock = NoTask
    /\ UnusedDial /\ UnusedRead
    /\ conn_waiters = <<>>
    /\ caller = [c \in Callers |-> "idle"]
    /\ read_buffer = <<>>
    /\ header = <<>>
    /\ stream = <<>>

InitWith(o, fs, configs) == IdleWith(o, fs, configs) /\ UnusedCodec

\* ------------------------------------------------------------------- codec
\* The tables of LGACPacket, as sets of <<code, symbol>> pairs.
LGAC_ACTION ==
    { <<0, "scan">>, <<1, "status">>, <<2, "off">>, <<3, "on">>, <<6, "lockon">>, <<7, "lockoff">> }

LGAC_MODE == { <<0, "cool">>, <<1, "dry">>, <<2, "fan_only">>, <<3, "auto">>, <<4, "heat">> }

LGAC_FAN_SPEED ==
    { <<1, "low">>, <<2, "medium">>, <<3, "high">>, <<4, "auto">>, <<5, "silent">>, <<6, "power">> }

\* As Parse with only the low three bits of the code looked up.
Parse_LowBits(table, inbyte) ==
    IF \E e \in table : e[1] = inbyte % 8
    THEN (CHOOSE e \in table : e[1] = inbyte % 8)[2] ELSE ""

\* parse_lgac_action / _mode / _fanspeed: table.get(inbyte), '' when absent
Parse(table, inbyte) ==
    IF \E e \in table : e[1] = inbyte THEN (CHOOSE e \in table : e[1] = inbyte)[2] ELSE ""

\* get_lgac_action_data / _mode_data / _fanspeed_data: the reversed table
\* .get(id), 0 when absent
Data(table, id) ==
    IF \E e \in table : e[2] = id THEN (CHOOSE e \in table : e[2] = id)[1] ELSE 0

\* As make_new_packet with the fan code shifted by three bits only.
make_new_packet_Shift3(group, id, action, operation, fanmove, fanspeed, temp) ==
    LET opmode == Data(LGAC_MODE, operation)
        mode == IF fanmove = "swing" THEN opmode + 8 ELSE opmode
    IN [ groupandid   |-> group * 16 + id,
         action       |-> Data(LGAC_ACTION, action),
         current_mode |-> mode + ((Data(LGAC_FAN_SPEED, fanspeed) * 8) % 256),
         set_temp     |-> IF 18 < temp /\ temp <= 30 THEN temp - 15 ELSE 10 ]

\* As make_new_packet without the sentinel for a temperature out of range.
make_new_packet_NoSentinel(group, id, action, operation, fanmove, fanspeed, temp) ==
    LET opmode == Data(LGAC_MODE, operation)
        mode == IF fanmove = "swing" THEN opmode + 8 ELSE opmode
    IN [ groupandid   |-> group * 16 + id,
         action       |-> Data(LGAC_ACTION, action),
         current_mode |-> mode + ((Data(LGAC_FAN_SPEED, fanspeed) * 16) % 256),
         set_temp     |-> temp - 15 ]

\* make_new_packet with set_detail_mode: the four body fields of a request.
\* "opmode |= 0x08" adds 8 to a mode code below 8, and
\* "mode | (fan_speed << 4) & 0xf0" adds the fan code in the high nibble.
make_new_packet(group, id, action, operation, fanmove, fanspeed, temp) ==
    LET opmode == Data(LGAC_MODE, operation)
        mode == IF fanmove = "swing" THEN opmode + 8 ELSE opmode
    IN [ groupandid   |-> group * 16 + id,
         action       |-> Data(LGAC_ACTION, action),
         current_mode |-> mode + ((Data(LGAC_FAN_SPEED, fanspeed) * 16) % 256),
         set_temp     |-> IF 18 < temp /\ temp <= 30 THEN temp - 15 ELSE 10 ]

WRITER_HEADER_MAGIC == <<128, 0, 163>>

\* As make_send_packet with the checksum taken over the four body bytes only.
make_send_packet_BodySum(p) ==
    LET body == <<p.groupandid, p.action, p.current_mode, p.set_temp>>
    IN WRITER_HEADER_MAGIC \o body \o <<calc_checksum(body)>>

\* make_send_packet: magic, pack('>BBBB', ...), checksum of all that
make_send_packet(p) ==
    LET body == WRITER_HEADER_MAGIC \o <<p.groupandid, p.action, p.current_mode, p.set_temp>>
    IN Append(body, calc_checksum(body))

\* calc_temp, in 1/100 degree: round(54.0 - num / 4, 2)
calc_temp(num) == 5400 - 25 * num

\* set_packet_data with get_detail_mode: the fields of the LGACPacket after
\* LGACPacket(rawdata), and what set_packet_data returned.  On a size mismatch
\* the fields keep the values of __init__.  With a str in cfg.TEMPERATURE_ADJUST
\* the sum "cfg.TEMPERATURE_ADJUST + self.calc_temp(...)" raises TypeError after
\* the unpacking and the set_temp assignment: the except clause returns False,
\* the temperatures keep their raw bytes and the symbols stay ''.
set_packet_data(raw) ==
    IF Len(raw) # RESPONSE_PACKET_SIZE
    THEN [ ok |-> FALSE, groupandid |-> 0, action |-> 0, current_mode |-> 0, set_temp |-> 0,
           current_temp |-> 0, pipe1_temp |-> 0, pipe2_temp |-> 0,
           str_action |-> "", str_opmode |-> "", str_fanmove |-> "", str_fanmode |-> "" ]
    ELSE IF cfg_TEMPERATURE_ADJUST[1] = "str"
    THEN [ ok |-> FALSE, groupandid |-> raw[5], action |-> raw[2], current_mode |-> raw[7],
           set_temp     |-> (raw[8] % 16) + 15,
           current_temp |-> 100 * raw[9],
           pipe1_temp   |-> 100 * raw[10],
           pipe2_temp   |-> 100 * raw[11],
           str_action |-> "", str_opmode |-> "", str_fanmove |-> "", str_fanmode |-> "" ]
    ELSE [ ok |-> TRUE, groupandid |-> raw[5], action |-> raw[2], current_mode |-> raw[7],
           set_temp     |-> (raw[8] % 16) + 15,
           current_temp |-> cfg_TEMPERATURE_ADJUST[2] + calc_temp(raw[9]),
           pipe1_temp   |-> calc_temp(raw[10]),
           pipe2_temp   |-> calc_temp(raw[11]),
           str_action   |-> IF Parse(LGAC_ACTION, raw[2]) = "" THEN "status"
                            ELSE Parse(LGAC_ACTION, raw[2]),
           str_opmode   |-> Parse(LGAC_MODE, raw[7] % 8),
           str_fanmove  |-> IF (raw[7] \div 8) % 2 = 1 THEN "swing" ELSE "fixed",
           str_fanmode  |-> IF Parse(LGAC_FAN_SPEED, (raw[7] \div 16) % 8) = "" THEN "low"
                            ELSE Parse(LGAC_FAN_SPEED, (raw[7] \div 16) % 8) ]

\* ------------------------------------------------- single-flight transaction
\* get_status / set_mode entry: "async with asyncio.timeout(5.0): async with
\* self._lock".  asyncio.Lock.acquire takes a free lock without suspending,
\* otherwise the caller joins the FIFO of waiters.
EnterCall_NoLock(t, a) ==
    /\ arg' = [arg EXCEPT ![t] = a]
    /\ res' = [res EXCEPT ![t] = None]
    /\ pc' = [pc EXCEPT ![t] = "connect"]
    /\ lock' = t
    /\ UNCHANGED waiters

EnterCall(t, a) ==
    /\ arg' = [arg EXCEPT ![t] = a]
    /\ res' = [res EXCEPT ![t] = None]
    /\ IF lock = NoTask /\ waiters = <<>>
       THEN /\ lock' = t
            /\ pc' = [pc EXCEPT ![t] = "connect"]
            /\ UNCHANGED waiters
       ELSE /\ waiters' = Append(waiters, t)
            /\ pc' = [pc EXCEPT ![t] = "lockwait"]
            /\ UNCHANGED lock

\* Leaving "async with self._lock" with result r: release() wakes the first
\* waiter, which then owns the lock.
EndTx(t, r) ==
    /\ res' = [res EXCEPT ![t] = r]
    /\ IF waiters = <<>>
       THEN /\ lock' = NoTask
            /\ pc' = [pc EXCEPT ![t] = "ret"]
            /\ UNCHANGED waiters
       ELSE /\ lock' = Head(waiters)
            /\ pc' = [pc EXCEPT ![t] = "ret", ![Head(waiters)] = "connect"]
            /\ waiters' = Tail(waiters)

Min(a, b) == IF a < b THEN a ELSE b

\* "if count_error:" of async_send_and_get_result
Counted_Always(t) == TRUE

Counted(t) == arg[t].count

\* History of the counted failures since read_error_count was last 0 by a
\* delivered frame or a forced close: their number, whether the last of
\* them made handle_max_read_error() close an open transport, and that it
\* did so.
NoteFailure(t, closed) ==
    IF arg[t].count /\ observe = "errors"
    THEN /\ fail_run' = Min((IF forced THEN 0 ELSE fail_run) + 1, MAX_READ_ERROR_RETRY + 2)
         /\ forced' = (closed /\ conn # "none")
         /\ after_close' = IF closed /\ conn # "none" THEN "closed" ELSE after_close
    ELSE UNCHANGED <<fail_run, forced, after_close>>

NoteSuccess(t) ==
    IF observe = "errors"
    THEN fail_run' = 0 /\ forced' = FALSE /\ UNCHANGED after_close
    ELSE UNCHANGED <<fail_run, forced, after_close>>

\* History of an async_write_one_chunk call: "retry" once its except branch is entered, then how it
\* ended: "True", "False", or "raise" when an exception left it.
\* Under "availability" the writes of the scan thread's call are recorded:
\* "none" from its entry until writer.write is called with its request.
NoteWriteReturn(v) ==
    write_ret' = IF observe = "commands" \/ (observe = "availability" /\ lock = "S")
                 THEN v ELSE write_ret

NoteStatusCall ==
    write_ret' = IF observe = "availability" THEN "none" ELSE write_ret

RemoveFrom(s, t) == SelectSeq(s, LAMBDA x : x # t)

\* "except Exception" of async_send_and_get_result
CaughtBySendAndGet_None(e) == FALSE

CaughtBySendAndGet(e) == e \in {"OSError", "TimeoutError", "ValueError"}

\* An exception e raised inside the transaction of task t.
RaiseInTx(t, e) ==
    IF CaughtBySendAndGet(e)
    THEN \* handle_max_read_error() when count_error, then "return ret" (None)
         /\ IF Counted(t)
            THEN conn' = "none" /\ rx' = <<>>
            ELSE UNCHANGED <<conn, rx>>
         /\ EndTx(t, None)
         /\ NoteFailure(t, TRUE)
         /\ attempt' = 1
         /\ UNCHANGED escaped
    ELSE \* leaves async_send_and_get_result, the lock and get_status / set_mode
         \* ("except asyncio.TimeoutError" does not match); only the scan thread
         \* has a handler further up (hub.py: "except Exception").
         /\ escaped' = TRUE
         /\ res' = [res EXCEPT ![t] = None]
         /\ lock' = IF waiters = <<>> THEN NoTask ELSE Head(waiters)
         /\ waiters' = IF waiters = <<>> THEN waiters ELSE Tail(waiters)
         /\ pc' = [x \in Tasks |->
                     IF x = t THEN (IF t = "S" THEN "sleep" ELSE "crashed")
                     ELSE IF waiters # <<>> /\ x = Head(waiters) THEN "connect"
                     ELSE pc[x]]
         /\ attempt' = 1
         /\ UNCHANGED <<conn, rx, fail_run, forced, after_close>>

\* connect_async_socket, first lines: nothing to do on an open writer.
Connect(t) ==
    /\ pc[t] = "connect"
    /\ IF conn # "none"
       THEN pc' = [pc EXCEPT ![t] = "write"] /\ UNCHANGED attempt
       ELSE pc' = [pc EXCEPT ![t] = "dial"] /\ attempt' = 1
    /\ UNCHANGED <<cfgvars, arg, res, lockvars, conn, rx, envvars, engvars, queuevars,
                   schedvars, availvars, histvars>>

\* asyncio.open_connection succeeds ("dial": from async_send_and_get_result,
\* "redial": from the except branch of async_write_one_chunk).
DialOk(t) ==
    /\ pc[t] \in {"dial", "redial"}
    /\ net = "up"
    /\ conn' = "open"
    /\ rx' = <<>>
    /\ attempt' = 1
    /\ pc' = [pc EXCEPT ![t] = IF pc[t] = "dial" THEN "write" ELSE "rewrite"]
    /\ UNCHANGED <<cfgvars, arg, res, lockvars, envvars, engvars, queuevars,
                   schedvars, availvars, histvars>>

\* The dial is refused: back off and try again, or raise last_err after the
\* third attempt.
DialFail(t) ==
    /\ pc[t] \in {"dial", "redial"}
    /\ net = "refused"
    /\ IF attempt < MaxDialAttempts
       THEN /\ attempt' = attempt + 1
            /\ UNCHANGED <<taskvars, lockvars, conn, rx, fail_run, forced, after_close, escaped, write_ret,
                           aircon_info, probed>>
       ELSE /\ RaiseInTx(t, "OSError")
            /\ IF pc[t] = "redial" THEN NoteWriteReturn("raise") ELSE UNCHANGED write_ret
            /\ UNCHANGED <<aircon_info, probed>>
            /\ UNCHANGED arg
    /\ UNCHANGED <<cfgvars, envvars, engvars, queuevars, schedvars, availvars, handed, peer_got>>

\* ---------------------------------------------------- async_write_one_chunk
NoteHanded(t) ==
    handed' = IF arg[t].ser > 0 /\ observe = "commands" THEN [handed EXCEPT ![arg[t].ser] = @ + 1] ELSE handed

NoteArrived(t) ==
    peer_got' = IF arg[t].ser > 0 /\ observe = "commands" THEN [peer_got EXCEPT ![arg[t].ser] = @ + 1] ELSE peer_got

\* The peer receives the request and puts its reply, if any, on the line.
PeerReceives(t) ==
    /\ NoteArrived(t)
    /\ \E r \in PeerReplies(arg[t].no) :
          /\ Len(wire) + Len(rx) + Len(recv_buffer) + Len(r) <= MaxPending
          /\ wire' = wire \o r

\* As WriteOk without its "return True": a first write that went through is
\* followed by the reconnect and the second write.
WriteOk_NoReturn(t) ==
    /\ pc[t] \in {"write", "rewrite"}
    /\ net = "up"
    /\ NoteHanded(t)
    /\ NoteWriteReturn("True")
    /\ PeerReceives(t)
    /\ IF pc[t] = "write"
       THEN pc' = [pc EXCEPT ![t] = "redial"] /\ conn' = "none" /\ rx' = <<>> /\ attempt' = 1
       ELSE pc' = [pc EXCEPT ![t] = "settle"] /\ UNCHANGED <<conn, rx, attempt>>
    /\ UNCHANGED <<cfgvars, arg, res, lockvars, net, engvars, queuevars,
                   schedvars, availvars, fail_run, forced, after_close, escaped, aircon_info, probed>>

\* writer.write + drain succeed on a live connection: "return True".
WriteOk(t) ==
    /\ pc[t] \in {"write", "rewrite"}
    /\ net = "up"
    /\ NoteHanded(t)
    /\ NoteWriteReturn("True")
    /\ PeerReceives(t)
    /\ pc' = [pc EXCEPT ![t] = "settle"]
    /\ UNCHANGED <<cfgvars, arg, res, lockvars, commvars, net, engvars, queuevars,
                   schedvars, availvars, fail_run, forced, after_close, escaped, aircon_info, probed>>

\* The path no longer carries the segments but the kernel still takes the
\* bytes: the call returns True and the request never arrives.
WriteLost(t) ==
    /\ pc[t] \in {"write", "rewrite"}
    /\ net # "up"
    /\ NoteHanded(t)
    /\ NoteWriteReturn("True")
    /\ pc' = [pc EXCEPT ![t] = "settle"]
    /\ UNCHANGED <<cfgvars, arg, res, lockvars, commvars, envvars, engvars, queuevars,
                   schedvars, availvars, peer_got, fail_run, forced, after_close, escaped,
                   aircon_info, probed>>

\* The first write raises a connection error: close_async_socket, then
\* connect_async_socket again.
WriteError(t) ==
    /\ pc[t] = "write"
    /\ net = "refused"
    /\ NoteHanded(t)
    /\ NoteWriteReturn("retry")
    /\ conn' = "none"
    /\ rx' = <<>>
    /\ attempt' = 1
    /\ pc' = [pc EXCEPT ![t] = "redial"]
    /\ UNCHANGED <<cfgvars, arg, res, lockvars, envvars, engvars, queuevars,
                   schedvars, availvars, peer_got, fail_run, forced, after_close, escaped,
                   aircon_info, probed>>

\* As RewriteError with a further close, reconnect and write after the
\* second failure.
RewriteError_Again(t) ==
    /\ pc[t] = "rewrite"
    /\ net = "refused"
    /\ NoteHanded(t)
    /\ NoteWriteReturn("retry")
    /\ conn' = "none"
    /\ rx' = <<>>
    /\ attempt' = 1
    /\ pc' = [pc EXCEPT ![t] = "redial"]
    /\ UNCHANGED <<cfgvars, arg, res, lockvars, envvars, engvars, queuevars,
                   schedvars, availvars, peer_got, fail_run, forced, after_close, escaped,
                   aircon_info, probed>>

\* The retried write raises too: async_write_one_chunk returns False, and
\* async_send_and_get_result calls handle_max_read_error() when count_error.
RewriteError(t) ==
    /\ pc[t] = "rewrite"
    /\ net = "refused"
    /\ NoteHanded(t)
    /\ NoteWriteReturn("False")
    /\ IF Counted(t)
       THEN conn' = "none" /\ rx' = <<>>
       ELSE UNCHANGED <<conn, rx>>
    /\ EndTx(t, None)
    /\ NoteFailure(t, TRUE)
    /\ UNCHANGED <<cfgvars, arg, attempt, envvars, engvars, queuevars,
                   schedvars, availvars, peer_got, escaped, aircon_info, probed>>

\* History of the hunts: "closed" once handle_max_read_error() has closed an
\* open transport,
\* "first" while the hunt of the first transaction that reads after it is
\* the last one begun, "no" otherwise.
NoteHuntBegins ==
    after_close' = IF after_close = "closed" THEN "first" ELSE "no"

\* asyncio.sleep(cfg.RS485_WRITE_INTERVAL_SEC) is over: async_read_packet
\* is called.
Settle(t) ==
    /\ pc[t] = "settle"
    /\ pc' = [pc EXCEPT ![t] = "hunt0"]
    /\ NoteHuntBegins
    /\ UNCHANGED <<cfgvars, arg, res, lockvars, commvars, envvars, engvars, queuevars,
                   schedvars, availvars, handed, peer_got, fail_run, forced, escaped,
                   write_ret, aircon_info, probed>>

\* --------------------------------------------------------- async_read_packet
\* self.comm.async_read_stream(2048): the bytes the socket holds at the moment,
\* possibly none, without waiting for more.
async_read_stream == rx

\* The callers of async_get_current_status: the scan thread and the bootstrap
\* scan.  The write loop calls async_set_current_mode.
StatusCallers == {"S", "D"}

\* As ReturnedInfo with the rewriting of the action in both wrappers.
ReturnedInfo_Both(t, frame) ==
    LET p == set_packet_data(frame)
    IN [ by |-> t, opmode |-> p.str_opmode,
         action |-> IF p.str_opmode = "auto" THEN "on" ELSE p.str_action ]

\* ret = Aircon.Info(new_packet.str_action, new_packet.str_opmode, ...) of
\* async_send_and_get_result, then in async_get_current_status only:
\* "if aircon_info.opmode == PAYLOAD_AUTO: aircon_info.action = PAYLOAD_ON".
ReturnedInfo(t, frame) ==
    LET p == set_packet_data(frame)
    IN [ by |-> t, opmode |-> p.str_opmode,
         action |-> IF t \in StatusCallers /\ p.str_opmode = "auto" THEN "on" ELSE p.str_action ]

NoteReturned(t, frame) ==
    aircon_info' = IF observe = "replies" THEN ReturnedInfo(t, frame) ELSE aircon_info

\* As HuntFound without the reset of read_error_count.
HuntFound_KeepCount(t) ==
    /\ pc[t] \in {"hunt0", "hunt"}
    /\ LET h == HuntLoop(recv_buffer \o async_read_stream) IN
          /\ h.frame # <<>>
          /\ recv_buffer' = h.buf
          /\ EndTx(t, h.frame)
          /\ NoteReturned(t, h.frame)
    /\ rx' = <<>>
    /\ UNCHANGED read_error_count
    /\ NoteSuccess(t)
    /\ UNCHANGED <<cfgvars, arg, conn, attempt, envvars, queuevars,
                   schedvars, availvars, handed, peer_got, escaped, write_ret, probed>>

\* One pass of the outer loop: the new bytes are appended to _recv_buffer and
\* the hunting loop runs over it.
HuntFound(t) ==
    /\ pc[t] \in {"hunt0", "hunt"}
    /\ LET h == HuntLoop(recv_buffer \o async_read_stream) IN
          /\ h.frame # <<>>
          /\ recv_buffer' = h.buf
          /\ EndTx(t, h.frame)
          /\ NoteReturned(t, h.frame)
    /\ rx' = <<>>
    /\ read_error_count' = 0
    /\ NoteSuccess(t)
    /\ UNCHANGED <<cfgvars, arg, conn, attempt, envvars, queuevars,
                   schedvars, availvars, handed, peer_got, escaped, write_ret, probed>>

HuntMore(t) ==
    /\ pc[t] \in {"hunt0", "hunt"}
    /\ LET h == HuntLoop(recv_buffer \o async_read_stream) IN
          /\ h.frame = <<>>
          /\ recv_buffer' = h.buf
    /\ rx' = <<>>
    /\ pc' = [pc EXCEPT ![t] = "hunt"]
    /\ UNCHANGED <<cfgvars, arg, res, lockvars, conn, attempt, envvars, read_error_count,
                   queuevars, schedvars, availvars, histvars>>

\* The 1.5 s of the hunt are over: "return None", then the error accounting of
\* async_send_and_get_result.
HuntTimeout(t) ==
    /\ pc[t] = "hunt"
    /\ IF Counted(t)
       THEN IF read_error_count + 1 > MAX_READ_ERROR_RETRY
            THEN /\ read_error_count' = 0
                 /\ conn' = "none"
                 /\ rx' = <<>>
                 /\ NoteFailure(t, TRUE)
            ELSE /\ read_error_count' = read_error_count + 1
                 /\ NoteFailure(t, FALSE)
                 /\ UNCHANGED <<conn, rx>>
       ELSE UNCHANGED <<read_error_count, conn, rx, fail_run, forced, after_close>>
    /\ EndTx(t, None)
    /\ UNCHANGED <<cfgvars, arg, attempt, envvars, recv_buffer, queuevars,
                   schedvars, availvars, handed, peer_got, escaped, write_ret, aircon_info, probed>>

\* asyncio.timeout(5.0) fires: the task is cancelled at the await it is
\* suspended at, "async with" releases the lock if it is held, and the caller
\* gets None ("except asyncio.TimeoutError").
Timeout_Never(t) == FALSE /\ UNCHANGED vars

\* As Timeout with the lock left to the cancelled holder.
Timeout_KeepLock(t) ==
    /\ pc[t] \in {"lockwait", "dial", "redial", "settle", "hunt0", "hunt"}
    /\ IF pc[t] = "lockwait"
       THEN waiters' = RemoveFrom(waiters, t)
       ELSE UNCHANGED waiters
    /\ pc' = [pc EXCEPT ![t] = "ret"]
    /\ res' = [res EXCEPT ![t] = None]
    /\ attempt' = 1
    /\ UNCHANGED <<cfgvars, arg, lock, conn, rx, envvars, engvars, queuevars,
                   schedvars, availvars, histvars>>

Timeout(t) ==
    /\ pc[t] \in {"lockwait", "dial", "redial", "settle", "hunt0", "hunt"}
    /\ IF pc[t] = "lockwait"
       THEN /\ waiters' = RemoveFrom(waiters, t)
            /\ pc' = [pc EXCEPT ![t] = "ret"]
            /\ res' = [res EXCEPT ![t] = None]
            /\ UNCHANGED lock
       ELSE EndTx(t, None)
    /\ attempt' = 1
    /\ UNCHANGED <<cfgvars, arg, conn, rx, envvars, engvars, queuevars,
                   schedvars, availvars, histvars>>

\* ------------------------------------------------------------ decoded fields
\* str_opmode of get_detail_mode: LGAC_MODE has the keys 0..4, '' otherwise.
OpmodeKnown(frame) == (frame[7] % 8) <= 4

\* current_temp of set_packet_data, in 1/100 degree:
\* TEMPERATURE_ADJUST + round(54.0 - raw / 4, 2)
CurTemp100(frame) == TEMPERATURE_ADJUST_x100 + 5400 - 25 * frame[9]

\* The two checks _is_valid_info makes on an Aircon.Info: opmode is not ''
\* and 0 <= cur_temp <= 40 (cur_temp in 1/100 degree).
InfoPlausible_NoUpperBound(opmode_known, cur_temp) == opmode_known /\ 0 <= cur_temp

InfoPlausible(opmode_known, cur_temp) ==
    /\ opmode_known
    /\ 0 <= cur_temp /\ cur_temp <= 4000

\* LGACPacketHandler._is_valid_info, on the Info decoded from a frame
is_valid_info(info) ==
    /\ info # None
    /\ InfoPlausible(OpmodeKnown(info), CurTemp100(info))

\* --------------------------------------------------------------- availability
LastTwo(s) == IF Len(s) <= 2 THEN s ELSE SubSeq(s, Len(s) - 1, Len(s))

\* self.notify_availability(room, v) followed by last_availability_status = v
PublishAvailability(d, v, by) ==
    /\ IF observe \in {"availability", "discovery"}
       THEN /\ avail_hist' = [avail_hist EXCEPT ![d] = LastTwo(Append(@, v))]
            /\ avail_by' = [avail_by EXCEPT ![d] = by]
       ELSE UNCHANGED <<avail_hist, avail_by>>
    /\ last_availability_status' = [last_availability_status EXCEPT ![d] = v]

\* self.notify_to_homeassistant(name, room, info) of task `by` for unit `id`
NotifyState(id, info, by) ==
    ha_state' = IF observe = "discovery" THEN [by |-> by, id |-> id, info |-> info] ELSE ha_state

\* ------------------------------------------------------------- scan scheduler
Due(d) == (now - tick[d]) > ScanInterval

\* Hub.async_scan_thread: now = time.monotonic(), then async_scan_aircons(now).
S_Tick ==
    /\ pc["S"] = "sleep"
    /\ \E n \in now..MaxClock : now' = n
    /\ idx' = 1
    /\ pc' = [pc EXCEPT !["S"] = "scan"]
    /\ UNCHANGED <<cfgvars, arg, res, lockvars, commvars, envvars, engvars, queuevars,
                   tick, pos, availvars, histvars>>

\* async_scan_aircons: the device is not due.
S_Skip ==
    /\ pc["S"] = "scan"
    /\ idx <= Len(rooms)
    /\ ~Due(idx)
    /\ idx' = idx + 1
    /\ UNCHANGED <<cfgvars, taskvars, lockvars, commvars, envvars, engvars, queuevars,
                   now, tick, pos, availvars, histvars>>

\* async_scan_aircons: the device is due; async_scan_aircon_status parses its
\* room key and calls async_get_current_status(no).  A key that int() rejects
\* raises ValueError up to the "except Exception" of the scan thread, which
\* ends this pass.
S_Select ==
    /\ pc["S"] = "scan"
    /\ idx <= Len(rooms)
    /\ Due(idx)
    /\ tick' = [tick EXCEPT ![idx] = now]
    /\ IF ParseDec(rooms[idx]) < 0
       THEN /\ pc' = [pc EXCEPT !["S"] = "sleep"]
            /\ UNCHANGED <<arg, res, lockvars>>
       ELSE EnterCall("S", [no |-> ParseDec(rooms[idx]), count |-> TRUE, ser |-> 0])
    /\ NoteStatusCall
    /\ UNCHANGED <<cfgvars, commvars, envvars, engvars, queuevars,
                   now, idx, pos, availvars, handed, peer_got, fail_run, forced, after_close,
                   escaped, aircon_info, probed>>

\* async_scan_aircons has gone through self.aircon.
S_EndPass ==
    /\ pc["S"] = "scan"
    /\ idx > Len(rooms)
    /\ pc' = [pc EXCEPT !["S"] = "sleep"]
    /\ UNCHANGED <<cfgvars, arg, res, lockvars, commvars, envvars, engvars, queuevars,
                   schedvars, availvars, histvars>>

\* async_scan_aircon_status after the call: publish the availability only
\* when it differs from last_availability_status.
S_After_Always ==
    /\ pc["S"] = "ret"
    /\ PublishAvailability(idx, IF res["S"] # None THEN "online" ELSE "offline", "S")
    /\ IF res["S"] # None THEN NotifyState(arg["S"].no, res["S"], "S") ELSE UNCHANGED ha_state
    /\ idx' = idx + 1
    /\ pc' = [pc EXCEPT !["S"] = "scan"]
    /\ arg' = [arg EXCEPT !["S"] = NoArg]
    /\ res' = [res EXCEPT !["S"] = None]
    /\ UNCHANGED <<cfgvars, lockvars, commvars, envvars, engvars, queuevars,
                   now, tick, pos, histvars>>

S_After ==
    /\ pc["S"] = "ret"
    /\ LET status == IF res["S"] # None THEN "online" ELSE "offline" IN
          IF last_availability_status[idx] # status
          THEN PublishAvailability(idx, status, "S")
          ELSE UNCHANGED <<last_availability_status, avail_hist, avail_by>>
    /\ IF res["S"] # None THEN NotifyState(arg["S"].no, res["S"], "S") ELSE UNCHANGED ha_state
    /\ idx' = idx + 1
    /\ pc' = [pc EXCEPT !["S"] = "scan"]
    /\ arg' = [arg EXCEPT !["S"] = NoArg]
    /\ res' = [res EXCEPT !["S"] = None]
    /\ UNCHANGED <<cfgvars, lockvars, commvars, envvars, engvars, queuevars,
                   now, tick, pos, histvars>>

\* ------------------------------------------------------------------ discovery
\* History of the calls of async_scan_all_devices
NoteProbed(id, count) ==
    probed' = IF observe = "discovery" THEN Append(probed, <<id, count>>) ELSE probed

RECURSIVE SortedSeq(_)
SortedSeq(S) ==
    IF S = {} THEN <<>>
    ELSE LET m == CHOOSE x \in S : \A y \in S : x <= y IN <<m>> \o SortedSeq(S \ {m})

TargetIds == { ParseHex(rooms[d]) : d \in DOMAIN rooms }

\* As ProbeList with the whole range swept, configured ids included.
ProbeList_WholeRange ==
    SortedSeq(TargetIds)
      \o (IF full_scan THEN SortedSeq(0..(FullScanRange - 1)) ELSE <<>>)

\* async_scan_all_devices: the configured ids in ascending order, then, with
\* full_scan_on_boot, the other ids of range(16).
ProbeList ==
    SortedSeq(TargetIds)
      \o (IF full_scan THEN SortedSeq((0..(FullScanRange - 1)) \ TargetIds) ELSE <<>>)

\* info = await self.async_get_current_status(id, count_error=False)
D_Probe ==
    /\ pc["D"] = "probe"
    /\ pos <= Len(ProbeList)
    /\ EnterCall("D", [no |-> ProbeList[pos], count |-> FALSE, ser |-> 0])
    /\ NoteProbed(ProbeList[pos], FALSE)
    /\ UNCHANGED <<cfgvars, commvars, envvars, engvars, queuevars, schedvars, availvars,
                   handed, peer_got, fail_run, forced, after_close, escaped, write_ret, aircon_info>>

D_Done ==
    /\ pc["D"] = "probe"
    /\ pos > Len(ProbeList)
    /\ pc' = [pc EXCEPT !["D"] = "done"]
    /\ UNCHANGED <<cfgvars, arg, res, lockvars, commvars, envvars, engvars, queuevars,
                   schedvars, availvars, histvars>>

\* After a probe: a valid result is published at once for the device that has
\* this id, whatever last_availability_status says.
D_After ==
    /\ pc["D"] = "ret"
    /\ LET id == ProbeList[pos]
           ds == { d \in DOMAIN rooms : ParseHex(rooms[d]) = id }
       IN IF is_valid_info(res["D"]) /\ ds # {}
          THEN /\ NotifyState(id, res["D"], "D")
               /\ PublishAvailability(CHOOSE d \in ds : \A e \in ds : d <= e, "online", "D")
          ELSE UNCHANGED availvars
    /\ pos' = pos + 1
    /\ pc' = [pc EXCEPT !["D"] = "probe"]
    /\ arg' = [arg EXCEPT !["D"] = NoArg]
    /\ res' = [res EXCEPT !["D"] = None]
    /\ UNCHANGED <<cfgvars, lockvars, commvars, envvars, engvars, queuevars,
                   now, tick, idx, histvars>>

\* --------------------------------------------------------------- command queue
\* handle_aircon_mqtt_message, on the message-bus thread:
\* aircon_no = int(get_room_aircon_number(room)), then
\* loop.call_soon_threadsafe(command_queue.put_nowait, (aircon_no, room, cmd)).
\* A room key int() rejects raises ValueError, which the handler swallows.
MqttCommand(d) ==
    /\ serial < MaxCommands
    /\ ParseDec(rooms[d]) >= 0
    /\ serial' = serial + 1
    /\ ts_calls' = Append(ts_calls, [no |-> ParseDec(rooms[d]), ser |-> serial + 1])
    /\ UNCHANGED <<cfgvars, taskvars, lockvars, commvars, envvars, engvars,
                   command_queue, dequeued, schedvars, availvars, histvars>>

\* The event loop runs the handed-over put_nowait.
RunCallback ==
    /\ ts_calls # <<>>
    /\ command_queue' = Append(command_queue, Head(ts_calls))
    /\ ts_calls' = Tail(ts_calls)
    /\ UNCHANGED <<cfgvars, taskvars, lockvars, commvars, envvars, engvars,
                   serial, dequeued, schedvars, availvars, histvars>>

\* async_lgac_main_write_loop: command_queue.get(), then async_set_current_mode.
TakeCommand_Last(q) == [cmd |-> q[Len(q)], rest |-> Front(q)]

TakeCommand(q) == [cmd |-> Head(q), rest |-> Tail(q)]

W_Get ==
    /\ pc["W"] = "get"
    /\ command_queue # <<>>
    /\ LET g == TakeCommand(command_queue) IN
          /\ command_queue' = g.rest
          /\ dequeued' = IF observe = "commands" THEN Append(dequeued, g.cmd.ser) ELSE dequeued
          /\ EnterCall("W", [no |-> g.cmd.no, count |-> TRUE, ser |-> g.cmd.ser])
    /\ UNCHANGED <<cfgvars, commvars, envvars, engvars, ts_calls, serial,
                   schedvars, availvars, histvars>>

\* write loop after the call: notify on a result, task_done(), next get().
W_After ==
    /\ pc["W"] = "ret"
    /\ pc' = [pc EXCEPT !["W"] = "get"]
    /\ arg' = [arg EXCEPT !["W"] = NoArg]
    /\ res' = [res EXCEPT !["W"] = None]
    /\ IF res["W"] # None THEN NotifyState(arg["W"].no, res["W"], "W") ELSE UNCHANGED ha_state
    /\ UNCHANGED <<cfgvars, lockvars, commvars, envvars, engvars, queuevars,
                   schedvars, last_availability_status, avail_hist, avail_by, histvars>>

\* ----------------------------------------------------------------- environment
\* The condition of the path to the serial adapter changes.
EnvChange(n) ==
    /\ n # net
    /\ net' = n
    /\ UNCHANGED <<cfgvars, taskvars, lockvars, commvars, wire, engvars, queuevars,
                   schedvars, availvars, histvars>>

\* The next k bytes of the peer arrive in the socket buffer.
Deliver(k) ==
    /\ conn = "open"
    /\ net = "up"
    /\ k \in 1..Len(wire)
    /\ rx' = rx \o SubSeq(wire, 1, k)
    /\ wire' = DropFirst(wire, k)
    /\ UNCHANGED <<cfgvars, taskvars, lockvars, conn, attempt, net, engvars, queuevars,
                   schedvars, availvars, histvars>>

\* One step of the transaction task t is in.
TaskStep(t) ==
    \/ Connect(t) \/ DialOk(t) \/ DialFail(t)
    \/ WriteOk(t) \/ WriteLost(t) \/ WriteError(t) \/ RewriteError(t)
    \/ Settle(t) \/ HuntFound(t) \/ HuntMore(t) \/ HuntTimeout(t)
    \/ Timeout(t)

Scheduler == S_Tick \/ S_Skip \/ S_Select \/ S_EndPass \/ S_After

Discovery == D_Probe \/ D_Done \/ D_After

Consumer == W_Get \/ W_After

MessageBus == (\E d \in DOMAIN rooms : MqttCommand(d)) \/ RunCallback

Environment == (\E n \in {"up", "refused", "silent"} : EnvChange(n)) \/ Deliver(Len(wire))

\* The whole program: the three tasks of hacollector.py, the message bus and
\* the network.
Next ==
    \/ \E t \in Tasks : TaskStep(t)
    \/ Scheduler \/ Discovery \/ Consumer \/ MessageBus
    \/ Environment

Init == InitWith("none", FALSE, OneRoom)

Spec == Init /\ [][Next]_vars

\* The same program with one of its histories recorded.
SpecErrors == InitWith("errors", FALSE, OneRoom) /\ [][Next]_vars

\* One configured room, with the clock of the scan thread short of the first
\* due time: async_scan_aircons finds nothing to do, and the write loop and
\* the discovery scan share the bus.
NextCommands ==
    \/ \E t \in {"W", "D"} : TaskStep(t)
    \/ Discovery \/ Consumer \/ MessageBus
    \/ Environment

SpecCommands == InitWith("commands", FALSE, OneRoom) /\ [][NextCommands]_vars

\* Every task that can take a step eventually takes one: the event loop runs
\* each ready task and fires each timer.
Fairness == \A t \in {"W", "D"} : WF_vars(TaskStep(t))

LiveSpec == Init /\ [][NextCommands]_vars /\ Fairness

\* Two configured rooms, while the message bus delivers no command: the write
\* loop stays in command_queue.get().
NextScan ==
    \/ \E t \in {"S", "D"} : TaskStep(t)
    \/ Scheduler \/ Discovery
    \/ Environment

SpecAvail == InitWith("availability", FALSE, TwoRooms) /\ [][NextScan]_vars

\* ------------------------------------------------------ transport scenario
\* Three coroutines call connect_async_socket() and close_async_socket() of
\* one TCPComm at will.  "async with self._conn_lock": a free lock is taken
\* without suspending, otherwise the caller joins the FIFO of waiters.
\* Leaving the block wakes the first waiter, which then owns the lock.
ReleaseConnLock(c, to) ==
    IF conn_waiters = <<>>
    THEN /\ conn_lock' = NoTask
         /\ caller' = [caller EXCEPT ![c] = to]
         /\ UNCHANGED conn_waiters
    ELSE LET w == Head(conn_waiters) IN
         /\ conn_lock' = w
         /\ conn_waiters' = Tail(conn_waiters)
         /\ caller' = [caller EXCEPT ![c] = to,
                                      ![w] = IF caller[w] = "c_lockwait" THEN "c_locked" ELSE "x_locked"]

\* As ConnectCall without the connection lock: whoever finds the writer not
\* open starts to dial.
ConnectCall_NoLock(c) ==
    /\ caller[c] = "idle"
    /\ IF conn = "open"
       THEN caller' = [caller EXCEPT ![c] = "ret"] /\ UNCHANGED <<attempt, dialvars>>
       ELSE /\ caller' = [caller EXCEPT ![c] = "c_dial"]
            /\ attempt' = 1
            /\ last_err' = NoError
            /\ dialled' = <<>>
    /\ UNCHANGED <<rooms, full_scan, observe, stream, taskvars, lockvars, conn, rx, envvars,
                   engvars, queuevars, schedvars, availvars, histvars, codecvars, readvars,
                   read_buffer, header, conn_lock, conn_waiters>>

\* connect_async_socket is called: it returns at once on an open writer,
\* otherwise it takes the connection lock (where the writer is still not
\* open) and starts the dial loop, or waits for the lock.
ConnectEntry(c) ==
    IF conn = "open"
    THEN /\ caller' = [caller EXCEPT ![c] = "ret"]
         /\ UNCHANGED <<conn_lock, conn_waiters, attempt, dialvars>>
    ELSE IF conn_lock = NoTask /\ conn_waiters = <<>>
    THEN /\ conn_lock' = c
         /\ attempt' = 1
         /\ last_err' = NoError
         /\ dialled' = <<>>
         /\ caller' = [caller EXCEPT ![c] = "c_dial"]
         /\ UNCHANGED conn_waiters
    ELSE /\ conn_waiters' = Append(conn_waiters, c)
         /\ caller' = [caller EXCEPT ![c] = "c_lockwait"]
         /\ UNCHANGED <<conn_lock, attempt, dialvars>>

ConnectCall(c) ==
    /\ caller[c] = "idle"
    /\ ConnectEntry(c)
    /\ UNCHANGED <<rooms, full_scan, observe, stream, taskvars, lockvars, conn, rx, envvars,
                   engvars, queuevars, schedvars, availvars, histvars, codecvars, readvars,
                   read_buffer, header>>

\* The waiter got the lock: the second check of the writer, then the dial loop.
ConnectLocked(c) ==
    /\ caller[c] = "c_locked"
    /\ IF conn = "open"
       THEN ReleaseConnLock(c, "ret") /\ UNCHANGED <<attempt, dialvars>>
       ELSE /\ caller' = [caller EXCEPT ![c] = "c_dial"]
            /\ attempt' = 1
            /\ last_err' = NoError
            /\ dialled' = <<>>
            /\ UNCHANGED <<conn_lock, conn_waiters>>
    /\ UNCHANGED <<rooms, full_scan, observe, stream, taskvars, lockvars, conn, rx, envvars,
                   engvars, queuevars, schedvars, availvars, histvars, codecvars, readvars,
                   read_buffer, header>>

\* asyncio.open_connection succeeds: reader and writer are set,
\* connection_reset is cleared, "return".
ConnDialOk(c) ==
    /\ caller[c] = "c_dial"
    /\ net = "up"
    /\ conn' = "open"
    /\ connection_reset' = FALSE
    /\ attempt' = 1
    /\ dialled' = Append(dialled, "ok")
    /\ rx' = <<>>
    /\ ReleaseConnLock(c, "ret")
    /\ UNCHANGED <<rooms, full_scan, observe, stream, taskvars, lockvars, envvars,
                   engvars, queuevars, schedvars, availvars, histvars, codecvars, last_err,
                   get_data, read_buffer, header>>

\* The exceptions open_connection raises on a path that refuses the dial
DialErrors == {"ConnectionRefusedError", "OSError"}

\* As ConnDialFail with last_err set by the first failure only.
ConnDialFail_FirstError(c) ==
    /\ caller[c] = "c_dial"
    /\ net = "refused"
    /\ \E e \in DialErrors :
          /\ last_err' = IF last_err = NoError THEN e ELSE last_err
          /\ dialled' = Append(dialled, e)
    /\ caller' = [caller EXCEPT ![c] = "c_sleep"]
    /\ UNCHANGED <<rooms, full_scan, observe, stream, taskvars, lockvars, commvars, envvars,
                   engvars, queuevars, schedvars, availvars, histvars, codecvars, readvars,
                   read_buffer, header, conn_lock, conn_waiters>>

\* asyncio.open_connection raises e: "last_err = e", then
\* asyncio.sleep(min(1.0 * attempt, 3.0)).
ConnDialFail(c) ==
    /\ caller[c] = "c_dial"
    /\ net = "refused"
    /\ \E e \in DialErrors :
          /\ last_err' = e
          /\ dialled' = Append(dialled, e)
    /\ caller' = [caller EXCEPT ![c] = "c_sleep"]
    /\ UNCHANGED <<rooms, full_scan, observe, stream, taskvars, lockvars, commvars, envvars,
                   engvars, queuevars, schedvars, availvars, histvars, codecvars, readvars,
                   read_buffer, header, conn_lock, conn_waiters>>

\* The back-off is over: the next attempt, or "raise last_err" after the third.
ConnBackoff(c) ==
    /\ caller[c] = "c_sleep"
    /\ IF attempt < MaxDialAttempts
       THEN /\ attempt' = attempt + 1
            /\ caller' = [caller EXCEPT ![c] = "c_dial"]
            /\ UNCHANGED <<conn_lock, conn_waiters>>
       ELSE /\ attempt' = 1
            /\ ReleaseConnLock(c, "raised")
    /\ UNCHANGED <<rooms, full_scan, observe, stream, taskvars, lockvars, conn, rx, envvars,
                   engvars, queuevars, schedvars, availvars, histvars, codecvars, dialvars, readvars, read_buffer, header>>

\* close_async_socket under the lock: writer.close() and the wait for
\* wait_closed() when there is a writer, else the "finally" block at once.
CloseBody(c) ==
    IF conn # "none"
    THEN /\ conn' = "closing"
         /\ caller' = [caller EXCEPT ![c] = "x_closing"]
         /\ UNCHANGED <<rx, read_buffer, conn_waiters>>
    ELSE /\ rx' = <<>>
         /\ read_buffer' = <<>>
         /\ UNCHANGED conn
         /\ IF conn_lock = c
            THEN ReleaseConnLock(c, "ret")
            ELSE caller' = [caller EXCEPT ![c] = "ret"] /\ UNCHANGED conn_waiters

\* close_async_socket is called: "async with self._conn_lock", then the body.
CloseEntry(c) ==
    IF conn_lock = NoTask /\ conn_waiters = <<>>
    THEN /\ CloseBody(c)
         /\ conn_lock' = IF conn # "none" THEN c ELSE NoTask
    ELSE /\ conn_waiters' = Append(conn_waiters, c)
         /\ caller' = [caller EXCEPT ![c] = "x_lockwait"]
         /\ UNCHANGED <<conn_lock, conn, rx, read_buffer>>

CloseCall(c) ==
    /\ caller[c] = "idle"
    /\ CloseEntry(c)
    /\ UNCHANGED <<rooms, full_scan, observe, stream, taskvars, lockvars, attempt, envvars,
                   engvars, queuevars, schedvars, availvars, histvars, codecvars, dialvars, readvars, header>>

CloseLocked(c) ==
    /\ caller[c] = "x_locked"
    /\ CloseBody(c)
    /\ IF conn # "none" THEN UNCHANGED conn_lock ELSE TRUE
    /\ UNCHANGED <<rooms, full_scan, observe, stream, taskvars, lockvars, attempt, envvars,
                   engvars, queuevars, schedvars, availvars, histvars, codecvars, dialvars, readvars, header>>

\* As CloseDone with read_buffer left as it is.
CloseDone_KeepBuffer(c) ==
    /\ caller[c] = "x_closing"
    /\ conn' = "none"
    /\ rx' = <<>>
    /\ ReleaseConnLock(c, "ret")
    /\ UNCHANGED <<rooms, full_scan, observe, stream, taskvars, lockvars, attempt, envvars,
                   engvars, queuevars, schedvars, availvars, histvars, codecvars, dialvars, readvars,
                   read_buffer, header>>

\* wait_closed() returns or raises (the exception is swallowed): the finally
\* block clears reader, writer and read_buffer.
CloseDone(c) ==
    /\ caller[c] = "x_closing"
    /\ conn' = "none"
    /\ rx' = <<>>
    /\ read_buffer' = <<>>
    /\ ReleaseConnLock(c, "ret")
    /\ UNCHANGED <<rooms, full_scan, observe, stream, taskvars, lockvars, attempt, envvars,
                   engvars, queuevars, schedvars, availvars, histvars, codecvars, dialvars, readvars, header>>

\* The call is over; the coroutine goes on to its next call.
CallOver(c) ==
    /\ caller[c] \in {"ret", "raised"}
    /\ caller' = [caller EXCEPT ![c] = "idle"]
    /\ UNCHANGED <<rooms, full_scan, observe, stream, taskvars, lockvars, commvars, envvars,
                   engvars, queuevars, schedvars, availvars, histvars, codecvars, dialvars, readvars, read_buffer, header, conn_lock, conn_waiters>>

LinkNext ==
    \/ \E c \in Callers :
          \/ ConnectCall(c) \/ ConnectLocked(c) \/ ConnDialOk(c) \/ ConnDialFail(c)
          \/ ConnBackoff(c) \/ CloseCall(c) \/ CloseLocked(c) \/ CloseDone(c) \/ CallOver(c)
    \/ \E n \in {"up", "refused", "silent"} : EnvChange(n)

LinkSpec == Init /\ [][LinkNext]_vars

\* ------------------------------------------------------------ read scenario
\* Coroutine "a" calls async_get_data and close_async_socket of one TCPComm,
\* one call after the other, while the peer sends bytes and the path changes.
\* Besides "none", "open" and "closing" the writer can here be "lost": the
\* transport closed itself on a fatal error, so that writer.is_closing() is
\* true and connect_async_socket dials again.  With a single coroutine
\* _closing is False wherever async_get_data tests it.
ReadLengths == 0..2
ReadBytes   == {1, 2}

\* What the actions of async_get_data leave alone
ReadRest == <<rooms, full_scan, observe, stream, header, taskvars, lockvars, envvars,
              engvars, queuevars, schedvars, availvars, histvars, codecvars>>

Reader == "a"

\* async_get_data has returned `ret`.
Returned(ret) == [get_data EXCEPT !.at = "none", !.ret = ret]

\* async_get_data(length, timeout) is called: wait_safe_communication.
GetDataCall(n, timed) ==
    /\ caller[Reader] = "idle"
    /\ get_data.at = "none"
    /\ get_data' = [at |-> "connect", length |-> n, timed |-> timed, ret |-> "none",
                    detected |-> FALSE, redial |-> "no", reconnect |-> FALSE, before |-> "none"]
    /\ ConnectEntry(Reader)
    /\ UNCHANGED <<conn, rx, read_buffer, connection_reset, ReadRest>>

\* wait_safe_communication returned: the read loop starts.
GetDataConnected ==
    /\ get_data.at = "connect"
    /\ caller[Reader] = "ret"
    /\ get_data' = [get_data EXCEPT !.at = "read"]
    /\ caller' = [caller EXCEPT ![Reader] = "g_read"]
    /\ UNCHANGED <<commvars, conn_lock, conn_waiters, read_buffer, connection_reset,
                   dialvars, ReadRest>>

\* wait_safe_communication raised: it is outside the try block, so the dial
\* error leaves async_get_data.
GetDataConnectRaised ==
    /\ get_data.at = "connect"
    /\ caller[Reader] = "raised"
    /\ get_data' = Returned("raised")
    /\ UNCHANGED <<caller, commvars, conn_lock, conn_waiters, read_buffer, connection_reset,
                   dialvars, ReadRest>>

\* The peer sends a byte, which arrives on the socket.
PeerSends(b) ==
    /\ conn = "open"
    /\ net = "up"
    /\ Len(rx) + Len(read_buffer) < MaxArriving
    /\ rx' = Append(rx, b)
    /\ UNCHANGED <<conn, attempt, caller, conn_lock, conn_waiters, read_buffer, readvars,
                   dialvars, ReadRest>>

\* In the loop: reader.read(buffer_size) returns what the socket holds,
\* "self.read_buffer += buffer".
GetDataRead ==
    /\ caller[Reader] = "g_read"
    /\ get_data.length > Len(read_buffer)
    /\ conn = "open"
    /\ rx # <<>>
    /\ read_buffer' = read_buffer \o rx
    /\ rx' = <<>>
    /\ UNCHANGED <<conn, attempt, caller, conn_lock, conn_waiters, readvars, dialvars, ReadRest>>

\* In the loop: the timeout has expired at the top of the loop or in
\* wait_for: "return b''".
GetDataTimeout ==
    /\ caller[Reader] = "g_read"
    /\ get_data.length > Len(read_buffer)
    /\ get_data.timed
    /\ get_data' = Returned(<<>>)
    /\ caller' = [caller EXCEPT ![Reader] = "ret"]
    /\ UNCHANGED <<commvars, conn_lock, conn_waiters, read_buffer, connection_reset,
                   dialvars, ReadRest>>

\* In the loop: the peer has closed and reader.read returns b'':
\* connection_reset is set, "break"; read_buffer is shorter than length, so
\* "if len(self.read_buffer) < length: return b''".
GetDataPeerClosed ==
    /\ caller[Reader] = "g_read"
    /\ get_data.length > Len(read_buffer)
    /\ conn = "open"
    /\ net = "refused"
    /\ rx = <<>>
    /\ connection_reset' = TRUE
    /\ get_data' = [Returned(<<>>) EXCEPT !.detected = TRUE]
    /\ caller' = [caller EXCEPT ![Reader] = "ret"]
    /\ UNCHANGED <<commvars, conn_lock, conn_waiters, read_buffer, dialvars, ReadRest>>

\* In the loop: the read raises IOError with errno ECONNRESET:
\* connection_reset is set, b'' is appended and the loop goes on; the
\* transport has closed itself and every further read raises the same.
GetDataConnReset ==
    /\ caller[Reader] = "g_read"
    /\ get_data.length > Len(read_buffer)
    /\ \/ conn = "open" /\ net = "refused"
       \/ conn = "lost"
    /\ conn' = "lost"
    /\ connection_reset' = TRUE
    /\ UNCHANGED <<attempt, rx, caller, conn_lock, conn_waiters, read_buffer, get_data,
                   dialvars, ReadRest>>

\* In the loop: the read raises another exception (an IOError with another
\* errno is raised again), which "except Exception" catches:
\* close_async_socket, then "return b''".
GetDataReadError ==
    /\ caller[Reader] = "g_read"
    /\ get_data.length > Len(read_buffer)
    /\ conn = "open"
    /\ net = "silent"
    /\ get_data' = [get_data EXCEPT !.at = "xclose"]
    /\ CloseEntry(Reader)
    /\ UNCHANGED <<attempt, connection_reset, dialvars, ReadRest>>

\* After the loop with length bytes in read_buffer: they are cut off and
\* returned, unless they are b'' with connection_reset set.
GetDataTake ==
    /\ caller[Reader] = "g_read"
    /\ get_data.length <= Len(read_buffer)
    /\ ~(get_data.length = 0 /\ connection_reset)
    /\ read_buffer' = DropFirst(read_buffer, get_data.length)
    /\ get_data' = Returned(SubSeq(read_buffer, 1, get_data.length))
    /\ caller' = [caller EXCEPT ![Reader] = "ret"]
    /\ UNCHANGED <<commvars, conn_lock, conn_waiters, connection_reset, dialvars, ReadRest>>

\* After the loop: "if ret == b'' and self.connection_reset and not
\* self._closing", which takes length = 0: close_async_socket, then
\* connect_async_socket.
GetDataReconnect ==
    /\ caller[Reader] = "g_read"
    /\ get_data.length = 0
    /\ connection_reset
    /\ get_data' = [get_data EXCEPT !.at = "close", !.ret = <<>>]
    /\ CloseEntry(Reader)
    /\ UNCHANGED <<attempt, connection_reset, dialvars, ReadRest>>

\* The close of the reconnect has returned: connect_async_socket.
GetDataClosed ==
    /\ get_data.at = "close"
    /\ caller[Reader] = "ret"
    /\ get_data' = [get_data EXCEPT !.at = "redial"]
    /\ ConnectEntry(Reader)
    /\ UNCHANGED <<conn, rx, read_buffer, connection_reset, ReadRest>>

\* The connect of the reconnect has returned: "return ret".
GetDataRedialled ==
    /\ get_data.at = "redial"
    /\ caller[Reader] = "ret"
    /\ get_data' = [Returned(get_data.ret) EXCEPT !.redial = "ok"]
    /\ UNCHANGED <<caller, commvars, conn_lock, conn_waiters, read_buffer, connection_reset,
                   dialvars, ReadRest>>

\* The connect of the reconnect has raised: "except Exception",
\* close_async_socket, then "return b''".
GetDataRedialRaised ==
    /\ get_data.at = "redial"
    /\ caller[Reader] = "raised"
    /\ get_data' = [get_data EXCEPT !.at = "xclose", !.redial = "failed"]
    /\ CloseEntry(Reader)
    /\ UNCHANGED <<attempt, connection_reset, dialvars, ReadRest>>

\* The close of the except clause has returned: "return b''".
GetDataExceptClosed ==
    /\ get_data.at = "xclose"
    /\ caller[Reader] = "ret"
    /\ get_data' = Returned(<<>>)
    /\ UNCHANGED <<caller, commvars, conn_lock, conn_waiters, read_buffer, connection_reset,
                   dialvars, ReadRest>>

async_get_data ==
    \/ \E n \in ReadLengths, timed \in BOOLEAN : GetDataCall(n, timed)
    \/ GetDataConnected \/ GetDataConnectRaised
    \/ GetDataRead \/ GetDataTimeout \/ GetDataPeerClosed \/ GetDataConnReset
    \/ GetDataReadError \/ GetDataTake \/ GetDataReconnect
    \/ GetDataClosed \/ GetDataRedialled \/ GetDataRedialRaised \/ GetDataExceptClosed

ReadNext ==
    \/ async_get_data
    \/ ConnDialOk(Reader) \/ ConnDialFail(Reader) \/ ConnBackoff(Reader)
    \/ CloseCall(Reader) \/ CloseDone(Reader)
    \/ (get_data.at = "none" /\ CallOver(Reader))
    \/ \E b \in ReadBytes : PeerSends(b)
    \/ \E n \in {"up", "refused", "silent"} : EnvChange(n)

ReadSpec == Init /\ [][ReadNext]_vars

\* ----------------------------------------------------- direct read scenario
\* Coroutine "a" calls async_get_data_direct and close_async_socket, one call
\* after the other.  get_data holds the running call: reconnect is its
\* reconnect_on_failure argument, before the writer it found, detected
\* whether its read gave b'' (end of stream or an exception), and redial how
\* far its reconnect went ("no", "closed", "ok", "failed").
DirectLengths == 1..2

\* async_get_data_direct(length, reconnect_on_failure) is called:
\* wait_safe_communication.
DirectCall(n, flag) ==
    /\ caller[Reader] = "idle"
    /\ get_data.at = "none"
    /\ get_data' = [at |-> "d_connect", length |-> n, timed |-> TRUE, ret |-> "none",
                    detected |-> FALSE, redial |-> "no", reconnect |-> flag, before |-> conn]
    /\ ConnectEntry(Reader)
    /\ UNCHANGED <<conn, rx, read_buffer, connection_reset, ReadRest>>

\* wait_safe_communication returned: the single read starts.
DirectConnected ==
    /\ get_data.at = "d_connect"
    /\ caller[Reader] = "ret"
    /\ get_data' = [get_data EXCEPT !.at = "d_read"]
    /\ caller' = [caller EXCEPT ![Reader] = "d_read"]
    /\ UNCHANGED <<commvars, conn_lock, conn_waiters, read_buffer, connection_reset,
                   dialvars, ReadRest>>

\* wait_safe_communication raised: the dial error leaves the call.
DirectConnectRaised ==
    /\ get_data.at = "d_connect"
    /\ caller[Reader] = "raised"
    /\ get_data' = Returned("raised")
    /\ UNCHANGED <<caller, commvars, conn_lock, conn_waiters, read_buffer, connection_reset,
                   dialvars, ReadRest>>

\* reader.read(length) returns up to length of the bytes the socket holds,
\* which are returned; read_buffer is not used.
DirectRead ==
    /\ caller[Reader] = "d_read"
    /\ conn = "open"
    /\ rx # <<>>
    /\ LET k == IF Len(rx) < get_data.length THEN Len(rx) ELSE get_data.length IN
          /\ get_data' = Returned(SubSeq(rx, 1, k))
          /\ rx' = DropFirst(rx, k)
    /\ caller' = [caller EXCEPT ![Reader] = "ret"]
    /\ UNCHANGED <<conn, attempt, conn_lock, conn_waiters, read_buffer, connection_reset,
                   dialvars, ReadRest>>

\* wait_for(..., timeout=2.0) expires with nothing received: "return b''".
DirectTimeout ==
    /\ caller[Reader] = "d_read"
    /\ conn = "open"
    /\ rx = <<>>
    /\ net # "refused"
    /\ get_data' = Returned(<<>>)
    /\ caller' = [caller EXCEPT ![Reader] = "ret"]
    /\ UNCHANGED <<commvars, conn_lock, conn_waiters, read_buffer, connection_reset,
                   dialvars, ReadRest>>

\* As DirectFailed with the reconnect made whatever reconnect_on_failure is.
DirectFailed_Always(reset) ==
    /\ caller[Reader] = "d_read"
    /\ conn = "open"
    /\ connection_reset' = (connection_reset \/ reset)
    /\ get_data' = [get_data EXCEPT !.at = "d_close", !.detected = TRUE, !.redial = "closed"]
    /\ CloseEntry(Reader)
    /\ UNCHANGED <<attempt, dialvars, ReadRest>>

\* The read gave b'' or raised (reset: IOError with errno ECONNRESET, which
\* sets connection_reset and leaves a transport that has closed itself):
\* buffer is b''; with reconnect_on_failure close_async_socket is called,
\* otherwise b'' is returned.
DirectFailed(reset) ==
    /\ caller[Reader] = "d_read"
    /\ conn = "open"
    /\ connection_reset' = (connection_reset \/ reset)
    /\ IF get_data.reconnect
       THEN /\ get_data' = [get_data EXCEPT !.at = "d_close", !.detected = TRUE,
                                             !.redial = "closed"]
            /\ CloseEntry(Reader)
       ELSE /\ get_data' = [Returned(<<>>) EXCEPT !.detected = TRUE]
            /\ caller' = [caller EXCEPT ![Reader] = "ret"]
            /\ conn' = IF reset THEN "lost" ELSE conn
            /\ UNCHANGED <<rx, read_buffer, conn_lock, conn_waiters>>
    /\ UNCHANGED <<attempt, dialvars, ReadRest>>

\* The peer has closed: reader.read returns b''.
DirectPeerClosed == net = "refused" /\ rx = <<>> /\ DirectFailed(FALSE)

\* The read raises IOError with errno ECONNRESET.
DirectConnReset == net = "refused" /\ DirectFailed(TRUE)

\* The read raises another exception.
DirectReadError == net = "silent" /\ DirectFailed(FALSE)

\* The close of the reconnect has returned: connect_async_socket.
DirectClosed ==
    /\ get_data.at = "d_close"
    /\ caller[Reader] = "ret"
    /\ get_data' = [get_data EXCEPT !.at = "d_redial"]
    /\ ConnectEntry(Reader)
    /\ UNCHANGED <<conn, rx, read_buffer, connection_reset, ReadRest>>

\* The connect of the reconnect has returned, or raised into
\* "except Exception: pass": "return buffer", which is b''.
DirectRedialOver ==
    /\ get_data.at = "d_redial"
    /\ caller[Reader] \in {"ret", "raised"}
    /\ get_data' = [Returned(<<>>) EXCEPT
                        !.redial = IF caller[Reader] = "ret" THEN "ok" ELSE "failed"]
    /\ caller' = [caller EXCEPT ![Reader] = "ret"]
    /\ UNCHANGED <<commvars, conn_lock, conn_waiters, read_buffer, connection_reset,
                   dialvars, ReadRest>>

async_get_data_direct ==
    \/ \E n \in DirectLengths, flag \in BOOLEAN : DirectCall(n, flag)
    \/ DirectConnected \/ DirectConnectRaised \/ DirectRead \/ DirectTimeout
    \/ DirectPeerClosed \/ DirectConnReset \/ DirectReadError
    \/ DirectClosed \/ DirectRedialOver

DirectNext ==
    \/ async_get_data_direct
    \/ ConnDialOk(Reader) \/ ConnDialFail(Reader) \/ ConnBackoff(Reader)
    \/ CloseCall(Reader) \/ CloseDone(Reader)
    \/ (get_data.at = "none" /\ CallOver(Reader))
    \/ \E b \in ReadBytes : PeerSends(b)
    \/ \E n \in {"up", "refused", "silent"} : EnvChange(n)

DirectSpec == Init /\ [][DirectNext]_vars

\* ------------------------------------------------- header hunt of TCPComm
\* bytes.find(sub): position of the first occurrence of h in buf from
\* position i on, 0 when there is none
RECURSIVE FindFrom(_, _, _)
FindFrom(buf, h, i) ==
    IF i + Len(h) - 1 > Len(buf) THEN 0
    ELSE IF SubSeq(buf, i, i + Len(h) - 1) = h THEN i
    ELSE FindFrom(buf, h, i + 1)

Find(buf, h) == FindFrom(buf, h, 1)

\* "self.read_buffer = self.read_buffer[idx:]" on a match at idx
DiscardBefore_WithHeader(buf, i) == DropFirst(buf, i)

DiscardBefore(buf, i) == DropFirst(buf, i - 1)

\* As KeepTail with one byte less kept for a multi-byte header.
KeepTail_OneLess(buf, h) ==
    IF Len(h) = 1 THEN <<>>
    ELSE IF Len(buf) > Len(h) - 2 THEN SubSeq(buf, Len(buf) - Len(h) + 3, Len(buf))
    ELSE buf

\* What is kept of a buffer without the header: nothing for a one-byte
\* header, else the last len(header) - 1 bytes.
KeepTail(buf, h) ==
    IF Len(h) = 1 THEN <<>>
    ELSE IF Len(buf) > Len(h) - 1 THEN SubSeq(buf, Len(buf) - Len(h) + 2, Len(buf))
    ELSE buf

\* The bytes of the response marker and of _WRITER_HEADER_MAGIC, of which the
\* buffered and arriving bytes are made.
HuntBytes == {HEADER, 128, 0, 163}

\* async_ensure_header(header) has been called by coroutine "a" on an open
\* transport (wait_safe_communication returns at once) with some bytes in
\* read_buffer and some more on their way; the engine is idle.
EnsureInit ==
    /\ observe = "none"
    /\ rooms = << <<0, 0>> >>
    /\ full_scan = FALSE
    /\ pc = [t \in Tasks |-> IF t = "W" THEN "get" ELSE IF t = "S" THEN "sleep" ELSE "done"]
    /\ arg = [t \in Tasks |-> NoArg]
    /\ res = [t \in Tasks |-> None]
    /\ lock = NoTask
    /\ waiters = <<>>
    /\ conn = "open"
    /\ net = "up"
    /\ attempt = 1
    /\ rx = <<>>
    /\ read_buffer \in SeqsUpTo(HuntBytes, MaxBuffered)
    /\ wire \in SeqsUpTo(HuntBytes, MaxArriving)
    /\ header \in { <<HEADER>>, <<128, 0, 163>> }
    /\ stream = read_buffer \o wire
    /\ recv_buffer = <<>>
    /\ read_error_count = 0
    /\ ts_calls = <<>>
    /\ command_queue = <<>>
    /\ now = 0
    /\ tick = [d \in DOMAIN rooms |-> 0]
    /\ idx = 1
    /\ pos = 1
    /\ last_availability_status = [d \in DOMAIN rooms |-> NeverNotified]
    /\ serial = 0
    /\ dequeued = <<>>
    /\ handed = [c \in 1..MaxCommands |-> 0]
    /\ peer_got = [c \in 1..MaxCommands |-> 0]
    /\ avail_hist = [d \in DOMAIN rooms |-> <<>>]
    /\ avail_by = [d \in DOMAIN rooms |-> NoTask]
    /\ ha_state = NotCalled
    /\ fail_run = 0
    /\ forced = FALSE
    /\ after_close = "no"
    /\ escaped = FALSE
    /\ write_ret = "none"
    /\ aircon_info = NoInfo
    /\ probed = <<>>
    /\ conn_lock = NoTask
    /\ UnusedDial /\ UnusedRead
    /\ conn_waiters = <<>>
    /\ caller = [c \in Callers |-> IF c = "a" THEN "h_scan" ELSE "idle"]
    /\ UnusedCodec

\* Top of the loop, "1. Check if we already have data": return True with the
\* bytes in front of the header discarded, or trim the buffer and go on to
\* read.
EnsureScan(c) ==
    /\ caller[c] = "h_scan"
    /\ LET i == Find(read_buffer, header) IN
          IF read_buffer # <<>> /\ i # 0
          THEN /\ read_buffer' = DiscardBefore(read_buffer, i)
               /\ caller' = [caller EXCEPT ![c] = "h_true"]
          ELSE /\ read_buffer' = IF read_buffer # <<>> THEN KeepTail(read_buffer, header) ELSE read_buffer
               /\ caller' = [caller EXCEPT ![c] = "h_read"]
    /\ UNCHANGED <<rooms, full_scan, observe, stream, taskvars, lockvars, commvars, envvars,
                   engvars, queuevars, schedvars, availvars, histvars, codecvars, dialvars, readvars, conn_lock, conn_waiters,
                   header>>

\* "2. Read more data": reader.read(buffer_size) returns what the socket
\* holds, which is appended to read_buffer.
EnsureRead(c) ==
    /\ caller[c] = "h_read"
    /\ rx # <<>>
    /\ read_buffer' = read_buffer \o rx
    /\ rx' = <<>>
    /\ caller' = [caller EXCEPT ![c] = "h_scan"]
    /\ UNCHANGED <<rooms, full_scan, observe, stream, taskvars, lockvars, conn, attempt, envvars,
                   engvars, queuevars, schedvars, availvars, histvars, codecvars, dialvars, readvars, conn_lock, conn_waiters,
                   header>>

\* The overall timeout has elapsed at the top of the loop (a scan of an
\* unchanged buffer in between changes nothing), or the read raises or returns
\* b'' on a connection the peer has reset: return False.
EnsureGiveUp(c) ==
    /\ caller[c] = "h_read"
    /\ caller' = [caller EXCEPT ![c] = "h_false"]
    /\ UNCHANGED <<rooms, full_scan, observe, stream, taskvars, lockvars, commvars, envvars,
                   engvars, queuevars, schedvars, availvars, histvars, codecvars, dialvars, readvars, conn_lock, conn_waiters,
                   read_buffer, header>>

EnsureNext ==
    \/ EnsureScan("a") \/ EnsureRead("a") \/ EnsureGiveUp("a")
    \/ \E k \in 1..Len(wire) : Deliver(k)

EnsureSpec == EnsureInit /\ [][EnsureNext]_vars

\* ------------------------------------------------------ discovery scenario
\* A response of unit `id` with the given mode byte and current-temperature
\* byte (FMT_body_read fields 7 and 9).
ResponseWith(id, mode, temp) ==
    LET b == <<HEADER, 1, 0, 0, id, 0, mode, 8, temp, 120, 124, 0, 0, 1, 0>>
    IN Append(b, calc_checksum(b))

\* Replies to the first probe: operating modes cool, auto, heat and the two
\* codes LGAC_MODE does not know (5, 7), with current temperatures of 54.5,
\* 40.25, 40.0, 24.5, 0.0, -0.25 and -9.25 degrees.
ProbeFrames ==
    { ResponseWith(0, m, c) : m \in {16, 19, 4, 21, 23}, c \in {0, 57, 58, 120, 218, 219, 255} }

\* async_scan_all_devices has sent its first probe (id 0, the lowest
\* configured id) and starts to read while the reply is on its way; the scan
\* thread and the write loop have nothing to do.
ProbeInit ==
    /\ observe = "discovery"
    /\ rooms \in TwoRooms
    /\ full_scan \in BOOLEAN
    /\ pc = [t \in Tasks |-> IF t = "W" THEN "get" ELSE IF t = "S" THEN "sleep" ELSE "hunt0"]
    /\ arg = [t \in Tasks |-> IF t = "D" THEN [no |-> 0, count |-> FALSE, ser |-> 0] ELSE NoArg]
    /\ res = [t \in Tasks |-> None]
    /\ lock = "D"
    /\ waiters = <<>>
    /\ conn = "open"
    /\ net = "up"
    /\ attempt = 1
    /\ rx = <<>>
    /\ wire \in ProbeFrames
    /\ recv_buffer = <<>>
    /\ read_error_count = 0
    /\ ts_calls = <<>>
    /\ command_queue = <<>>
    /\ now = 0
    /\ tick = [d \in DOMAIN rooms |-> 0]
    /\ idx = 1
    /\ pos = 1
    /\ last_availability_status = [d \in DOMAIN rooms |-> NeverNotified]
    /\ serial = 0
    /\ dequeued = <<>>
    /\ handed = [c \in 1..MaxCommands |-> 0]
    /\ peer_got = [c \in 1..MaxCommands |-> 0]
    /\ avail_hist = [d \in DOMAIN rooms |-> <<>>]
    /\ avail_by = [d \in DOMAIN rooms |-> NoTask]
    /\ ha_state = NotCalled
    /\ fail_run = 0
    /\ forced = FALSE
    /\ after_close = "no"
    /\ escaped = FALSE
    /\ write_ret = "none"
    /\ aircon_info = NoInfo
    /\ probed = << <<0, FALSE>> >>
    /\ conn_lock = NoTask
    /\ UnusedDial /\ UnusedRead
    /\ conn_waiters = <<>>
    /\ caller = [c \in Callers |-> "idle"]
    /\ read_buffer = <<>>
    /\ header = <<>>
    /\ UnusedCodec
    /\ stream = <<>>

NextProbe == TaskStep("D") \/ Discovery \/ Environment

ProbeSpec == ProbeInit /\ [][NextProbe]_vars

\* ---------------------------------------------------------- reply scenario
\* A status frame of unit 0 with the given action and mode bytes
StatusFrame(action, mode) ==
    LET b == <<HEADER, action, 0, 0, 0, 0, mode, 8, 120, 120, 124, 0, 0, 1, 0>>
    IN Append(b, calc_checksum(b))

\* Replies with the actions status, off, on and a code LGAC_ACTION does not
\* know (9), in the operating modes cool (0x10) and auto (0x13).
ReplyFrames == { StatusFrame(a, m) : a \in {1, 2, 3, 9}, m \in {16, 19} }

\* One room with unit 0.  Either the bootstrap scan has sent its probe and a
\* command waits in the queue, or the write loop has sent the request of the
\* first command and the bootstrap scan is about to start; the reply is on
\* its way.
ReplyInit ==
    /\ observe = "replies"
    /\ rooms = << <<0, 0>> >>
    /\ full_scan = FALSE
    /\ \E h \in {"D", "W"} :
          /\ lock = h
          /\ pc = [t \in Tasks |-> IF t = h THEN "hunt0"
                                   ELSE IF t = "W" THEN "get"
                                   ELSE IF t = "S" THEN "sleep" ELSE "probe"]
          /\ arg = [t \in Tasks |-> IF t # h THEN NoArg
                                    ELSE IF h = "D" THEN [no |-> 0, count |-> FALSE, ser |-> 0]
                                    ELSE [no |-> 0, count |-> TRUE, ser |-> 1]]
          /\ command_queue = IF h = "D" THEN << [no |-> 0, ser |-> 1] >> ELSE <<>>
    /\ res = [t \in Tasks |-> None]
    /\ waiters = <<>>
    /\ conn = "open"
    /\ net = "up"
    /\ attempt = 1
    /\ rx = <<>>
    /\ wire \in ReplyFrames
    /\ recv_buffer = <<>>
    /\ read_error_count = 0
    /\ ts_calls = <<>>
    /\ now = 0
    /\ tick = [d \in DOMAIN rooms |-> 0]
    /\ idx = 1
    /\ pos = 1
    /\ last_availability_status = [d \in DOMAIN rooms |-> NeverNotified]
    /\ serial = 1
    /\ dequeued = <<>>
    /\ handed = [c \in 1..MaxCommands |-> 0]
    /\ peer_got = [c \in 1..MaxCommands |-> 0]
    /\ avail_hist = [d \in DOMAIN rooms |-> <<>>]
    /\ avail_by = [d \in DOMAIN rooms |-> NoTask]
    /\ ha_state = NotCalled
    /\ fail_run = 0
    /\ forced = FALSE
    /\ after_close = "no"
    /\ escaped = FALSE
    /\ write_ret = "none"
    /\ aircon_info = NoInfo
    /\ probed = <<>>
    /\ conn_lock = NoTask
    /\ UnusedDial /\ UnusedRead
    /\ conn_waiters = <<>>
    /\ caller = [c \in Callers |-> "idle"]
    /\ read_buffer = <<>>
    /\ header = <<>>
    /\ UnusedCodec
    /\ stream = <<>>

NextReply == TaskStep("D") \/ TaskStep("W") \/ Discovery \/ Consumer \/ Environment

ReplySpec == ReplyInit /\ [][NextReply]_vars

\* ------------------------------------------------------------ codec scenario
\* Requests of group 0: two unit ids, every action symbol and an unknown
\* one, cool / fixed / low or auto / swing / power, and the target
\* temperatures 18 (sent as the value 10) and 30.
\* Values of the temp argument of make_new_packet: below, in and above the
\* range the climate entity offers.
TargetTemps == (-2..40) \cup {255, 256}

Commands ==
    { <<0, id, a, s[1], s[2], s[3], t>> :
        id \in {5, 15},
        a \in {"scan", "status", "off", "on", "lockon", "lockoff", "toggle"},
        s \in { <<"cool", "fixed", "low">>, <<"auto", "swing", "power">> },
        t \in {18, 30} }
    \cup
    { <<0, 5, "status", m[2], v, f[2], 18>> :
        m \in LGAC_MODE, v \in {"swing", "fixed"}, f \in LGAC_FAN_SPEED }
    \cup
    { <<0, 5, "on", "cool", "fixed", "low", t>> : t \in TargetTemps }

\* A response with byte k (1-based) replaced by v
ResponseBut(k, v) == [ResponseFrame(5) EXCEPT ![k] = v]

\* Byte strings handed to the decoder: responses with every value of the
\* action, mode, set temperature, current temperature and pipe temperature
\* bytes, and strings that are too short or too long.
RawFrames ==
    { ResponseBut(k, v) : k \in {2, 7, 8, 9, 10, 11}, v \in 0..255 }
      \cup { SubSeq(ResponseFrame(5), 1, n) : n \in 1..15 }
      \cup { ResponseFrame(5) \o <<0>> }

\* TEMPERATURE_ADJUST of the environment: unset, or the text "1.0"
EnvOffsets == { <<>>, <<100>> }

\* Either a request is about to be built or a byte string to be decoded.
CodecInit ==
    /\ IdleWith("none", FALSE, { << <<0, 0>> >> })
    /\ packet = <<>>
    /\ decoded = <<>>
    /\ \/ /\ cmd \in Commands
          /\ rawdata = <<>>
          /\ cfg_TEMPERATURE_ADJUST = load_env_values(<<>>)
       \/ /\ cmd = <<>>
          /\ rawdata \in RawFrames
          /\ \E env \in EnvOffsets : cfg_TEMPERATURE_ADJUST = load_env_values(env)

\* The request frame of cmd
Encoded(c) == make_send_packet(make_new_packet(c[1], c[2], c[3], c[4], c[5], c[6], c[7]))

\* packet.make_new_packet(...), then send_packet = packet.make_send_packet()
Encode ==
    /\ cmd # <<>>
    /\ packet = <<>>
    /\ packet' = Encoded(cmd)
    /\ UNCHANGED <<rooms, full_scan, observe, stream, linkvars, cmd, rawdata, decoded,
                   cfg_TEMPERATURE_ADJUST,
                   taskvars, lockvars, commvars, envvars, engvars, queuevars, schedvars,
                   availvars, histvars>>

\* One byte of the frame is changed on the line.
Alter ==
    /\ cmd # <<>>
    /\ packet = Encoded(cmd)
    /\ rawdata = <<>>
    /\ \E k \in 1..8, v \in 0..255 :
          /\ v # packet[k]
          /\ packet' = [packet EXCEPT ![k] = v]
    /\ UNCHANGED <<rooms, full_scan, observe, stream, linkvars, cmd, rawdata, decoded,
                   cfg_TEMPERATURE_ADJUST,
                   taskvars, lockvars, commvars, envvars, engvars, queuevars, schedvars,
                   availvars, histvars>>

\* The unit answers the request with a status frame that carries the mode
\* byte it was given.
Report ==
    /\ cmd # <<>>
    /\ packet = Encoded(cmd)
    /\ rawdata = <<>>
    /\ rawdata' = ResponseBut(7, packet[6])
    /\ UNCHANGED <<rooms, full_scan, observe, stream, linkvars, cmd, packet, decoded,
                   cfg_TEMPERATURE_ADJUST,
                   taskvars, lockvars, commvars, envvars, engvars, queuevars, schedvars,
                   availvars, histvars>>

\* new_packet = LGACPacket(read_packet)
Decode ==
    /\ rawdata # <<>>
    /\ decoded = <<>>
    /\ decoded' = <<set_packet_data(rawdata)>>
    /\ UNCHANGED <<rooms, full_scan, observe, stream, linkvars, cmd, packet, rawdata,
                   cfg_TEMPERATURE_ADJUST,
                   taskvars, lockvars, commvars, envvars, engvars, queuevars, schedvars,
                   availvars, histvars>>

\* The decoded state goes into an Aircon.Info, and a request built from that
\* Info encodes its symbols again: make_new_packet(group, id, info.action,
\* info.opmode, info.fanmove, info.fanmode, info.target_temp), make_send_packet()
EncodeDecoded ==
    /\ cmd = <<>>
    /\ decoded # <<>>
    /\ decoded[1].ok
    /\ packet = <<>>
    /\ LET d == decoded[1]
       IN packet' = make_send_packet(
                        make_new_packet(d.groupandid \div 16, d.groupandid % 16, d.str_action,
                                        d.str_opmode, d.str_fanmove, d.str_fanmode, d.set_temp))
    /\ UNCHANGED <<rooms, full_scan, observe, stream, linkvars, cmd, rawdata, decoded,
                   cfg_TEMPERATURE_ADJUST,
                   taskvars, lockvars, commvars, envvars, engvars, queuevars, schedvars,
                   availvars, histvars>>

CodecNext ==
    \/ Encode
    \/ Alter
    \/ Report
    \/ Decode
    \/ EncodeDecoded

CodecSpec == CodecInit /\ [][CodecNext]_vars

\* ------------------------------------------------------- hunting scenario
\* A frame whose checksum byte was damaged on the line.
Corrupt(f) == [f EXCEPT ![Len(f)] = (@ + 1) % 256]

\* Received streams: noise and stray markers, then a frame, a damaged frame
\* followed by a frame, or two frames, then possibly the start of another.
Streams ==
    { n \o f \o e :
        n \in SeqsUpTo({HEADER, 69}, MaxNoise),
        f \in { ResponseFrame(0),
                Corrupt(ResponseFrame(1)) \o ResponseFrame(0),
                ResponseFrame(1) \o ResponseFrame(0) },
        e \in { <<>>, <<HEADER>> } }

\* A transaction that has written its request and starts async_read_packet
\* while the stream is still on its way.
HuntInit ==
    /\ observe = "none"
    /\ rooms \in OneRoom
    /\ full_scan = FALSE
    /\ pc = [t \in Tasks |-> IF t = "W" THEN "get" ELSE IF t = "S" THEN "sleep" ELSE "hunt0"]
    /\ arg = [t \in Tasks |-> IF t = "D" THEN [no |-> 0, count |-> FALSE, ser |-> 0] ELSE NoArg]
    /\ res = [t \in Tasks |-> None]
    /\ lock = "D"
    /\ waiters = <<>>
    /\ conn = "open"
    /\ net = "up"
    /\ attempt = 1
    /\ rx = <<>>
    /\ stream \in Streams
    /\ wire = stream
    /\ recv_buffer = <<>>
    /\ read_error_count = 0
    /\ ts_calls = <<>>
    /\ command_queue = <<>>
    /\ now = 0
    /\ tick = [d \in DOMAIN rooms |-> 0]
    /\ idx = 1
    /\ pos = 1
    /\ last_availability_status = [d \in DOMAIN rooms |-> NeverNotified]
    /\ serial = 0
    /\ dequeued = <<>>
    /\ handed = [c \in 1..MaxCommands |-> 0]
    /\ peer_got = [c \in 1..MaxCommands |-> 0]
    /\ avail_hist = [d \in DOMAIN rooms |-> <<>>]
    /\ avail_by = [d \in DOMAIN rooms |-> NoTask]
    /\ ha_state = NotCalled
    /\ fail_run = 0
    /\ forced = FALSE
    /\ after_close = "no"
    /\ escaped = FALSE
    /\ write_ret = "none"
    /\ aircon_info = NoInfo
    /\ probed = <<>>
    /\ conn_lock = NoTask
    /\ UnusedDial /\ UnusedRead
    /\ conn_waiters = <<>>
    /\ caller = [c \in Callers |-> "idle"]
    /\ read_buffer = <<>>
    /\ header = <<>>
    /\ UnusedCodec

\* The received bytes arrive in segments of any size while the hunt runs.
HuntNext ==
    \/ HuntFound("D") \/ HuntMore("D") \/ HuntTimeout("D")
    \/ \E k \in 1..Len(wire) : Deliver(k)

HuntSpec == HuntInit /\ [][HuntNext]_vars

\* Offset of the first 16-byte window of s that starts with the marker and has
\* a correct checksum, searched from offset i; 0 when there is none.
RECURSIVE FirstValidFrom(_, _)
FirstValidFrom(s, i) ==
    IF i + RESPONSE_PACKET_SIZE - 1 > Len(s) THEN 0
    ELSE IF s[i] = HEADER /\ is_checksum_ok(SubSeq(s, i, i + RESPONSE_PACKET_SIZE - 1)) THEN i
    ELSE FirstValidFrom(s, i + 1)

FirstValidOffset(s) == FirstValidFrom(s, 1)

\* C4: whatever the segmentation, a hunt that returns a frame returns the
\* first checksum-valid window of the stream, having discarded exactly the
\* bytes in front of it (false markers one byte at a time), and once the whole
\* stream has arrived the hunting loop does find that frame.
C4_HuntReturnsFirstValidFrame ==
    LET o == FirstValidOffset(stream) IN
    /\ (pc["D"] = "ret" /\ res["D"] # None) =>
           /\ o > 0
           /\ res["D"] = SubSeq(stream, o, o + RESPONSE_PACKET_SIZE - 1)
           /\ recv_buffer \o rx \o wire = DropFirst(stream, o + RESPONSE_PACKET_SIZE - 1)
    /\ (pc["D"] \in {"hunt0", "hunt"} /\ wire = <<>> /\ o > 0) =>
           HuntLoop(recv_buffer \o rx).frame = SubSeq(stream, o, o + RESPONSE_PACKET_SIZE - 1)

\* C4 witness: the stream starts with a false marker (a 0x10 whose 16-byte
\* window fails the checksum), the valid frame starts one byte later, and the
\* hunt has returned it with one byte discarded.
C4_Witness ==
    /\ stream # <<>>
    /\ stream[1] = HEADER
    /\ ~is_checksum_ok(SubSeq(stream, 1, RESPONSE_PACKET_SIZE))
    /\ FirstValidOffset(stream) = 2
    /\ pc["D"] = "ret"
    /\ res["D"] = SubSeq(stream, 2, RESPONSE_PACKET_SIZE + 1)
    /\ Len(stream) - Len(recv_buffer \o rx \o wire) - RESPONSE_PACKET_SIZE = 1

\* ---------------------------------------------------------------- properties
\* pcs of a task that is inside async_send_and_get_result
TxSteps == {"connect", "dial", "write", "redial", "rewrite", "settle", "hunt0", "hunt"}

\* pcs from the write of the request to the end of the hunting read
WindowSteps == TxSteps \ {"connect", "dial"}

\* C1: in every reachable state a task inside a transaction is the holder of
\* the single-flight lock, so at most one transaction is between its write and
\* the end of its hunting read; a task that found the lock taken is queued
\* behind a holder other than itself and has no result.
C1_SingleFlight ==
    /\ \A t \in Tasks : pc[t] \in TxSteps => lock = t
    /\ Cardinality({ t \in Tasks : pc[t] \in WindowSteps }) <= 1
    /\ \A t \in Tasks : pc[t] = "lockwait" =>
           /\ lock \in Tasks \ {t}
           /\ \E i \in DOMAIN waiters : waiters[i] = t
           /\ res[t] = None

\* C1 witness: the scheduler's transaction is in its hunting read while the
\* write loop and the discovery scan both wait for the lock.
C1_Witness ==
    /\ pc["S"] = "hunt"
    /\ pc["W"] = "lockwait"
    /\ pc["D"] = "lockwait"
    /\ lock = "S"

\* C2: counting the counted failed transactions since read_error_count was
\* last 0, the 1st, 2nd and 3rd of them leave the open transport alone, and
\* the 4th force-closes it and leaves the counter at 0.
C2_FourthFailureCloses ==
    /\ fail_run \in 1..MAX_READ_ERROR_RETRY => ~forced
    /\ fail_run = MAX_READ_ERROR_RETRY + 1 => (forced /\ read_error_count = 0 /\ conn = "none")

\* The transaction in flight is a non-counted probe.
ProbeInFlight == lock \in Tasks /\ pc[lock] \in TxSteps /\ ~arg[lock].count

\* C3 as stated: no step taken while a non-counted probe is in flight changes
\* read_error_count, whatever the outcome of the probe.
C3_ProbeLeavesCounter ==
    [][ProbeInFlight => read_error_count' = read_error_count]_vars

\* C3 amended: while a non-counted probe is in flight read_error_count never
\* grows and the hunt timeout or write failure of the probe never closes the
\* transport; the counter changes only by the reset to 0 of the step in which
\* the probe returns a frame.
C3_ProbeNeverCounts ==
    [][ProbeInFlight =>
         /\ \/ read_error_count' = read_error_count
            \/ /\ read_error_count' = 0
               /\ pc'[lock] = "ret"
               /\ res'[lock] # None
         /\ (pc[lock] \in {"hunt", "rewrite"} /\ res'[lock] = None) => conn' = conn]_vars

\* C3 witness: a probe has ended without a frame after its hunting read while
\* the counter stands above 0 and the transport is still open.
C3_Witness ==
    /\ pc["D"] = "ret"
    /\ ~arg["D"].count
    /\ res["D"] = None
    /\ read_error_count > 0
    /\ conn = "open"
    /\ recv_buffer = <<>> /\ rx = <<>> /\ wire = <<>>

\* serials of the commands held in a queue, in queue order
Sers(q) == [i \in 1..Len(q) |-> q[i].ser]

\* C5: at every moment the commands taken by the write loop, followed by those
\* waiting in command_queue and those handed over but not yet put, are exactly
\* the commands enqueued so far in their order of arrival: the write loop
\* takes them first-in first-out, skips none and takes none twice.
C5_FifoExactlyOnce ==
    dequeued \o Sers(command_queue) \o Sers(ts_calls) = [i \in 1..serial |-> i]

\* C5 witness: both commands have been taken, first the first and then the
\* second, which the write loop is executing.
C5_Witness ==
    /\ dequeued = <<1, 2>>
    /\ command_queue = <<>> /\ ts_calls = <<>>
    /\ pc["W"] \in TxSteps
    /\ arg["W"].ser = 2

\* C6: once the write loop is back from async_set_current_mode for a command
\* it took, the frame of that command has been handed to writer.write at
\* least once.
C6_DequeuedCommandIsWritten ==
    (pc["W"] = "ret" /\ arg["W"].ser > 0) => handed[arg["W"].ser] >= 1

\* C7: the frame of a command reaches the peer at most once, also when
\* async_write_one_chunk has reconnected and written again.
C7_AtMostOnceOnBus ==
    \A c \in 1..MaxCommands : peer_got[c] <= 1

\* C7 witness: a command's first write raised, the retry after the reconnect
\* went through, and the peer has got the frame once.
C7_Witness ==
    \E c \in 1..MaxCommands : handed[c] = 2 /\ peer_got[c] = 1

\* pcs of a task inside async_get_current_status / async_set_current_mode
CallSteps == TxSteps \cup {"lockwait"}

\* C8: every call of async_get_current_status / async_set_current_mode that
\* has started eventually returns to its caller, whatever the network and the
\* other tasks do; and a hunting read that ends while the hunting loop finds
\* no valid frame in what has arrived ends with no value.
C8_EveryCallReturns ==
    /\ \A t \in {"W", "D"} : (pc[t] \in CallSteps) ~> (pc[t] = "ret")
    /\ [][\A t \in Tasks :
             (pc[t] = "hunt" /\ pc'[t] = "ret" /\ HuntLoop(recv_buffer \o rx).frame = <<>>)
                => res'[t] = None]_vars

\* C8 witness: the write loop's call has returned without a value while the
\* network carried nothing and the dial could not complete.
C8_Witness ==
    /\ pc["W"] = "ret"
    /\ res["W"] = None
    /\ net = "silent"
    /\ conn = "none"

\* C9: no exception ever leaves async_get_current_status or
\* async_set_current_mode, and neither the write loop nor the discovery scan
\* nor the scan thread is ended by a failed transaction.
C9_NoExceptionEscapes ==
    /\ ~escaped
    /\ \A t \in Tasks : pc[t] # "crashed"

\* C9 witness: a counted transaction has failed on a write error after the
\* reconnect (the transport was force-closed), and the write loop has gone on
\* to its second command while the scan thread is alive.
C9_Witness ==
    /\ forced
    /\ fail_run = 1
    /\ pc["W"] \in TxSteps
    /\ arg["W"].ser = 2
    /\ pc["S"] \in {"sleep", "scan", "lockwait"}

ConsidersDevice ==
    /\ pc["S"] = "scan"
    /\ idx <= Len(rooms)
    /\ (idx' # idx \/ pc'["S"] # "scan")

\* C11: at a scheduler tick a device enters a status transaction
\* (async_get_current_status, running or queued for the lock) exactly when
\* now - tick is strictly greater than the scan interval; its tick is then set
\* to now before the transaction starts and is not touched until the
\* transaction is over; a device that is not selected keeps its tick.
C11_DueIffTransaction ==
    [][ /\ ConsidersDevice =>
            /\ (pc'["S"] \in TxSteps \cup {"lockwait"}) <=> ((now - tick[idx]) > ScanInterval)
            /\ tick' = IF (now - tick[idx]) > ScanInterval
                       THEN [tick EXCEPT ![idx] = now] ELSE tick
        /\ ~ConsidersDevice => tick' = tick
      ]_vars

\* A step in which async_scan_all_devices evaluates the result of a probe.
ProbeEvaluated == pc["D"] = "ret" /\ pc'["D"] = "probe"

\* The configured device with the id probed last, 0 when there is none.
ProbedDevice ==
    LET ds == { d \in DOMAIN rooms : 16 * rooms[d][1] + rooms[d][2] = ProbeList[pos] }
    IN IF ds = {} THEN 0 ELSE CHOOSE d \in ds : \A e \in ds : d <= e

C13_FoundIsPublished ==
    [][ (/\ ProbeEvaluated
         /\ res["D"] # <<>>
         /\ (res["D"][7] % 8) \in 0..4
         /\ res["D"][9] \in 58..218)
        => /\ ha_state' = [by |-> "D", id |-> ProbeList[pos], info |-> res["D"]]
           /\ ProbedDevice # 0
           /\ avail_hist'[ProbedDevice] = Append(avail_hist[ProbedDevice], "online")
           /\ avail_by'[ProbedDevice] = "D"
      ]_vars

\* C14: a call ends without a result by the acquire timeout only while it is
\* still waiting for the lock; a call that holds the lock leaves its
\* transaction only with a delivered frame, at the end of the hunting read
\* (TIMEOUT), or on a failed connect or write (IO_ERROR).
C14_HolderRunsToOutcome ==
    [][ \A t \in Tasks :
          (lock = t /\ pc[t] \in TxSteps /\ pc'[t] = "ret") =>
              \/ res'[t] # None
              \/ pc[t] = "hunt"
              \/ pc[t] \in {"dial", "redial"} /\ attempt = MaxDialAttempts /\ net = "refused"
              \/ pc[t] = "rewrite" /\ net = "refused"
      ]_vars

\* C15 as stated: a call whose first write failed and which ends while it
\* reconnects (the reconnect failed) returns False, without raising.
C15_ReconnectFailureReturnsFalse ==
    [][ \A t \in {"W", "D"} :
          (pc[t] = "redial" /\ pc'[t] = "ret" /\ write_ret' # write_ret)
              => write_ret' = "False"
      ]_vars

\* C15 amended: a first write that fails closes the transport and starts one
\* reconnect; the data is then written exactly once more, the call returning
\* True when that write goes through and False, without raising, when it
\* fails; a call that ends while it reconnects returns nothing: the error of
\* the last dial leaves it (unless the timer of the transaction cancels it
\* first); the frame of a command is never handed to the writer more than
\* twice.
C15_RetryOnceThenFalse ==
    [][ /\ \A t \in {"W", "D"} :
            /\ (pc[t] = "write" /\ pc'[t] = "redial")
                  => (conn' = "none" /\ attempt' = 1 /\ write_ret' = "retry")
            /\ pc[t] = "rewrite" =>
                  \/ pc'[t] = "rewrite" /\ write_ret' = write_ret
                  \/ pc'[t] = "settle" /\ write_ret' = "True"
                  \/ pc'[t] = "ret" /\ write_ret' = "False" /\ ~escaped'
            /\ (pc[t] = "redial" /\ pc'[t] = "ret") =>
                  \/ write_ret' = "raise" /\ attempt = MaxDialAttempts /\ net = "refused"
                  \/ write_ret' = write_ret /\ write_ret = "retry"
            /\ (pc[t] = "redial" /\ pc'[t] = "rewrite") => handed' = handed
        /\ \A c \in 1..MaxCommands :
            /\ handed'[c] <= 2
            /\ handed'[c] = 2 => (handed[c] = 2 \/ pc["W"] = "rewrite")
      ]_vars

\* C15 witness: the first write of a command failed, the reconnect succeeded
\* and the second write went through: two writes, one arrival, True returned.
C15_Witness ==
    /\ pc["W"] = "settle"
    /\ arg["W"].ser > 0
    /\ handed[arg["W"].ser] = 2
    /\ peer_got[arg["W"].ser] = 1
    /\ write_ret = "True"

\* Callers inside the dial loop of connect_async_socket / inside the close
Dialing == { c \in Callers : caller[c] \in {"c_dial", "c_sleep"} }
Closing == { c \in Callers : caller[c] = "x_closing" }

\* C16: a connect on an open transport returns without dialling and changes
\* nothing (writer, read buffer, connection lock and every other caller stay
\* as they are); however connect and close calls interleave, at most one
\* caller is in the dial loop, at most one in a close, and never one in each.
C16_IdempotentConnectSingleDial ==
    /\ [](Cardinality(Dialing) + Cardinality(Closing) <= 1)
    /\ [][ \A c \in Callers :
             (caller[c] = "idle" /\ conn = "open" /\ caller'[c] # "idle") =>
                 \/ caller'[c] \in {"x_closing", "x_lockwait"}
                 \/ /\ caller'[c] = "ret"
                    /\ \A o \in Callers \ {c} : caller'[o] = caller[o]
                    /\ UNCHANGED <<conn, attempt, rx, net, conn_lock, conn_waiters>>
         ]_vars

\* C16 witness: one caller is in its second dial attempt while a close and a
\* further connect wait for the connection lock.
C16_Witness ==
    /\ \E c \in Callers : caller[c] = "c_dial" /\ conn_lock = c
    /\ attempt = 2
    /\ Len(conn_waiters) = 2
    /\ \E x, y \in Callers : caller[x] = "x_lockwait" /\ caller[y] = "c_lockwait"

\* C17: when async_ensure_header returns True, which it does at once when
\* read_buffer holds the header after some garbage, it has discarded exactly
\* the bytes in front of the first occurrence of the header: read_buffer then
\* starts with the header, and it, followed by what is still to be read, is
\* everything from that occurrence on.
C17_DiscardsExactlyTheGarbage ==
    LET i == Find(stream, header)
        left == read_buffer \o rx \o wire
    IN caller["a"] = "h_true" =>
          /\ i # 0
          /\ Len(read_buffer) >= Len(header)
          /\ \A k \in 1..Len(header) : read_buffer[k] = header[k]
          /\ Len(stream) - Len(left) = i - 1
          /\ left = SubSeq(stream, i, Len(stream))

\* C17 witness: read_buffer held two bytes of garbage, the one-byte header
\* and a further byte; the call has returned True with two bytes discarded.
C17_Witness ==
    /\ caller["a"] = "h_true"
    /\ header = <<HEADER>>
    /\ Len(stream) = 4 /\ wire = <<>> /\ rx = <<>>
    /\ Find(stream, header) = 3
    /\ read_buffer = SubSeq(stream, 3, 4)

\* C18: every request frame make_send_packet builds has 8 bytes and passes
\* is_checksum_ok, its last byte being (sum of the first seven & 0xFF) XOR
\* 0x55; a frame that differs from it in the value of one byte, whichever,
\* fails is_checksum_ok.
C18_ChecksumDetectsOneByte ==
    (cmd # <<>> /\ packet # <<>>) =>
        LET sent == Encoded(cmd)
            changed == { k \in 1..8 : packet[k] # sent[k] }
        IN /\ Len(packet) = 8
           /\ sent[8] = Xor8(SumSeq(SubSeq(sent, 1, 7)) % 256, 85)
           /\ changed = {} => is_checksum_ok(packet)
           /\ Cardinality(changed) = 1 => ~is_checksum_ok(packet)

\* C18 witness: the checksum byte itself of a frame was changed, and the
\* frame, which passed before, fails.
C18_Witness ==
    /\ cmd # <<>> /\ packet # <<>>
    /\ is_checksum_ok(Encoded(cmd))
    /\ packet[8] # Encoded(cmd)[8]
    /\ SubSeq(packet, 1, 7) = SubSeq(Encoded(cmd), 1, 7)
    /\ ~is_checksum_ok(packet)


\* ------------------------------------------------------------------ C19
\* C19: a response whose action byte is one of 0, 1, 2, 3, 6, 7 decodes to
\* the symbol of that code, and a request built from the decoded symbol
\* carries the same code in its action byte; any other action byte decodes to
\* "status"; a fan-speed field (bits 4..6 of the mode byte) outside 1..6
\* decodes to "low".
ActionCodes == {0, 1, 2, 3, 6, 7}

C19_ActionRoundTripAndDefaults ==
    (cmd = <<>> /\ decoded # <<>> /\ decoded[1].ok) =>
        LET d == decoded[1]
            fan == (rawdata[7] \div 16) % 8
        IN /\ rawdata[2] \in ActionCodes =>
                /\ <<rawdata[2], d.str_action>> \in LGAC_ACTION
                /\ packet # <<>> => packet[5] = rawdata[2]
           /\ rawdata[2] \notin ActionCodes => d.str_action = "status"
           /\ fan \notin 1..6 => d.str_fanmode = "low"
           /\ fan \in 1..6 => <<fan, d.str_fanmode>> \in LGAC_FAN_SPEED

\* The code 6 was decoded to "lockon" and encoded as 6 again.
C19_Witness ==
    /\ cmd = <<>> /\ decoded # <<>> /\ packet # <<>>
    /\ rawdata[2] = 6
    /\ decoded[1].str_action = "lockon"
    /\ packet[5] = 6


\* ------------------------------------------------------------------ C20
\* C20: for every 16-byte response the decoded set temperature is
\* (raw & 0x0f) + 0x0f, each decoded pipe temperature is 54.0 - raw / 4 (here
\* in 1/100 degree, so that four times the value is 21600 - 100 * raw), and
\* the decoded current temperature is that value of its byte plus the
\* configured calibration offset; a byte string of another length is refused.
C20_DecodesTemperatures ==
    decoded # <<>> =>
        LET d == decoded[1]
        IN IF Len(rawdata) = RESPONSE_PACKET_SIZE
           THEN /\ d.set_temp = (rawdata[8] % 16) + 15
                /\ 4 * d.pipe1_temp = 21600 - 100 * rawdata[10]
                /\ 4 * d.pipe2_temp = 21600 - 100 * rawdata[11]
                /\ 4 * (d.current_temp - cfg_TEMPERATURE_ADJUST[2]) = 21600 - 100 * rawdata[9]
           ELSE ~d.ok


\* ------------------------------------------------------------------ C21
\* C21: the mode byte that make_new_packet builds from an operating mode, a
\* sweep and a fan speed of the three tables decodes, in the response that
\* carries it, to the same three symbols; and a response whose mode byte is
\* 0x10 decodes to cool, fixed, low.
C21_ModeByteRoundTrip ==
    (decoded # <<>> /\ decoded[1].ok) =>
        LET d == decoded[1]
        IN /\ cmd # <<>> =>
                /\ rawdata[7] = packet[6]
                /\ d.str_opmode = cmd[4]
                /\ d.str_fanmove = cmd[5]
                /\ d.str_fanmode = cmd[6]
           /\ rawdata[7] = 16 =>
                d.str_opmode = "cool" /\ d.str_fanmove = "fixed" /\ d.str_fanmode = "low"

\* heat, swing, silent went through the byte 0x5c and came back.
C21_Witness ==
    /\ cmd # <<>> /\ decoded # <<>> /\ decoded[1].ok
    /\ cmd[4] = "heat" /\ cmd[5] = "swing" /\ cmd[6] = "silent"
    /\ packet[6] = 92
    /\ decoded[1].str_opmode = "heat"
    /\ decoded[1].str_fanmove = "swing"
    /\ decoded[1].str_fanmode = "silent"


\* ------------------------------------------------------------------ C22
\* C22: when a call returns with a result, the action of the returned Info is
\* "on" if the call is async_get_current_status and the frame's operating
\* mode is auto; in every other case, and always for async_set_current_mode,
\* it is the action the frame decodes to (its LGAC_ACTION symbol, "status"
\* for an unknown code).
C22_AutoReportedAsOn ==
    [][\A t \in Tasks :
          (pc[t] \in {"hunt0", "hunt"} /\ pc'[t] = "ret" /\ res'[t] # None) =>
              LET f == res'[t]
                  a == aircon_info'.action
              IN /\ aircon_info'.by = t
                 /\ IF t \in StatusCallers /\ f[7] % 8 = 3
                    THEN a = "on"
                    ELSE \/ <<f[2], a>> \in LGAC_ACTION
                         \/ f[2] \notin {0, 1, 2, 3, 6, 7} /\ a = "status"]_vars

\* The bootstrap scan got the frame of a unit that is off in auto mode, and
\* the status it was given says "on".
C22_Witness ==
    /\ pc["D"] = "ret"
    /\ res["D"] # None
    /\ res["D"][2] = 2
    /\ res["D"][7] = 19
    /\ aircon_info = [by |-> "D", opmode |-> "auto", action |-> "on"]


\* ------------------------------------------------------------------ C23
\* C23: when the write of a counted transaction fails for good (the retried
\* write fails too), the call returns no result and read_error_count goes up
\* by one, as on a hunt timeout: the transport is force-closed, and the
\* counter set back to 0, only when that increment exceeds
\* MAX_READ_ERROR_RETRY; otherwise the transport stays as it is.
C23_WriteFailureCountsOnce ==
    [][\A t \in Tasks :
          (pc[t] = "rewrite" /\ pc'[t] = "ret" /\ arg[t].count) =>
              /\ res'[t] = None
              /\ IF read_error_count + 1 > MAX_READ_ERROR_RETRY
                 THEN read_error_count' = 0 /\ conn' = "none"
                 ELSE read_error_count' = read_error_count + 1 /\ conn' = conn]_vars


\* ------------------------------------------------------------------ C24
\* C24: a counted transaction that delivers a frame leaves read_error_count
\* at 0, and the counter only ever grows by one, in a counted transaction that
\* ends without a frame: what it holds are failures that came after the last
\* delivered frame.
C24_Delivered(t) == pc[t] \in {"hunt0", "hunt"} /\ pc'[t] = "ret" /\ res'[t] # None

C24_SuccessResetsCounter ==
    /\ [][\A t \in Tasks : (C24_Delivered(t) /\ arg[t].count) => read_error_count' = 0]_vars
    /\ [][read_error_count' > read_error_count =>
            /\ read_error_count' = read_error_count + 1
            /\ \E t \in Tasks : /\ arg[t].count
                                /\ pc[t] = "hunt" /\ pc'[t] = "ret" /\ res'[t] = None]_vars
    /\ [](read_error_count <= MAX_READ_ERROR_RETRY)

\* A counted scan of a device whose previous scan had no result (it was
\* published offline) has delivered a frame.
C24_Witness ==
    /\ pc["S"] = "ret"
    /\ arg["S"].count
    /\ res["S"] # None
    /\ last_availability_status[idx] = "offline"
    /\ read_error_count = 0


\* ------------------------------------------------------------------ C25
\* C25: when async_read_packet returns a frame, the frame is 16 bytes that
\* start with 0x10 and whose last byte is (sum of the others & 0xff) ^ 0x55;
\* it is a window of the accumulation buffer (with the bytes just read), and
\* afterwards the buffer holds exactly the bytes that followed that window, in
\* their order.
C25_ReturnedFrameAndRest ==
    [][(pc["D"] \in {"hunt0", "hunt"} /\ pc'["D"] = "ret" /\ res'["D"] # None) =>
          LET buf == recv_buffer \o rx
              f == res'["D"]
          IN /\ Len(f) = RESPONSE_PACKET_SIZE
             /\ f[1] = HEADER
             /\ f[RESPONSE_PACKET_SIZE] =
                    Xor8(SumSeq(SubSeq(f, 1, RESPONSE_PACKET_SIZE - 1)) % 256, ChecksumMask)
             /\ \E o \in 1..Len(buf) :
                   /\ o + RESPONSE_PACKET_SIZE - 1 <= Len(buf)
                   /\ f = SubSeq(buf, o, o + RESPONSE_PACKET_SIZE - 1)
                   /\ recv_buffer' = SubSeq(buf, o + RESPONSE_PACKET_SIZE, Len(buf))]_vars

\* Two frames and a stray marker arrived behind a noise byte: the first frame
\* was returned, the second frame and the marker are still buffered.
C25_Witness ==
    /\ pc["D"] = "ret"
    /\ res["D"] = ResponseFrame(1)
    /\ stream[1] # HEADER
    /\ recv_buffer = ResponseFrame(0) \o <<HEADER>>


\* ------------------------------------------------------------------ C26
\* C26: in the sequence of calls the bootstrap scan has made, every call is a
\* non-counted probe, no id occurs twice, a probe of an id outside the room
\* map occurs only with full_scan_on_boot and only after every id of the room
\* map has been probed, and the ids probed are within 0..15 or configured.
C26_ProbeOrder ==
    \A i \in 1..Len(probed) :
        /\ probed[i][2] = FALSE
        /\ \A j \in 1..Len(probed) : probed[j][1] = probed[i][1] => j = i
        /\ probed[i][1] \notin TargetIds =>
              /\ full_scan
              /\ probed[i][1] \in 0..15
              /\ \A id \in TargetIds : \E j \in 1..(i - 1) : probed[j][1] = id

\* With the rooms 0x00 and 0x0a and the full scan, the scan has probed 0 and
\* 10 and then 1 .. 9 and 11 .. 15.
C26_Witness ==
    /\ full_scan
    /\ TargetIds = {0, 10}
    /\ Len(probed) = 16
    /\ probed[2][1] = 10
    /\ probed[3][1] = 1
    /\ probed[16][1] = 15
    /\ pc["D"] = "done"

\* ------------------------------------------------------------------ C27
\* C27: a device whose scan.tick is still the initial zero (a device that no
\* tick has selected yet, so every registered device at the first tick after
\* startup) is selected as soon as async_scan_aircons considers it, whatever
\* value time.monotonic() gave for now: the pass leaves the list for the
\* device's status request and its tick becomes now.
C27_FirstTickSelectsAll ==
    [][(ConsidersDevice /\ tick[idx] = 0) =>
           /\ pc'["S"] # "scan"
           /\ tick' = [tick EXCEPT ![idx] = now]]_vars

CloseReturns ==
    /\ caller'[Reader] = "ret"
    /\ \/ caller[Reader] = "x_closing"
       \/ caller[Reader] = "idle" /\ get_data'.at = "none"
       \/ caller[Reader] = "raised" /\ get_data'.at = "xclose"

\* C29: when close_async_socket returns the transport has no reader, no
\* writer and an empty read_buffer, whatever the state of the path during the
\* shutdown; a transport without a writer (never opened, or closed before)
\* has an empty read_buffer, and a close on it returns with all of that
\* unchanged.
C29_CloseClearsTransport ==
    /\ [](conn = "none" => (read_buffer = <<>> /\ rx = <<>>))
    /\ [][CloseReturns =>
            /\ conn' = "none" /\ read_buffer' = <<>> /\ rx' = <<>>
            /\ conn = "none" => UNCHANGED <<conn, read_buffer, rx, connection_reset>>
         ]_vars

\* C29 witness: the close that async_get_data makes after a read error has
\* just returned on a path that had gone silent, the transport is closed and
\* the bytes read before the error are gone.
C29_Witness ==
    /\ get_data.at = "xclose"
    /\ get_data.redial = "no"
    /\ get_data.length = 2
    /\ caller[Reader] = "ret"
    /\ net = "silent"
    /\ conn = "none"
    /\ read_buffer = <<>>

\* ------------------------------------------------------------------ C30
\* C30: an async_get_data call in which reader.read returned b'' with fewer
\* than `length` bytes buffered (the peer closed) returns only after it has
\* set connection_reset, closed the transport and dialled again, so that after
\* a dial that succeeded the writer is open when the call returns.
C30_PeerCloseReconnects ==
    [][(get_data.at # "none" /\ get_data'.at = "none" /\ get_data'.detected) =>
           /\ get_data'.redial \in {"ok", "failed"}
           /\ get_data'.redial = "ok" => (conn' = "open" /\ ~connection_reset')
      ]_vars

\* ------------------------------------------------------------------ C31
\* A step in which an async_get_data_direct call returns b''
DirectReturnsEmpty ==
    /\ get_data.at \in {"d_read", "d_redial"}
    /\ get_data'.at = "none"
    /\ get_data'.ret = <<>>

\* C31 as stated, for a call that found the transport open (a call on a
\* closed transport dials in wait_safe_communication before it reads): an
\* async_get_data_direct call that returns b'' has not closed or dialled the
\* transport, which is still open.
C31_NeverReconnects ==
    [][(DirectReturnsEmpty /\ get_data'.before = "open") =>
           /\ get_data'.redial = "no"
           /\ conn' # "none"]_vars

\* C31 amended: an async_get_data_direct call first opens a transport that
\* is not open.  When it then returns b'' it has closed and dialled again
\* exactly when its read gave b'' or raised and reconnect_on_failure was set:
\* the writer is then open after a dial that succeeded and None after one that
\* failed.  After a timeout, or with reconnect_on_failure cleared, the call
\* has left the writer it read from in place.
C31_ReconnectsOnlyOnRequest ==
    [][DirectReturnsEmpty =>
           /\ (get_data'.redial # "no") <=> (get_data'.detected /\ get_data'.reconnect)
           /\ get_data'.redial \in {"no", "ok", "failed"}
           /\ get_data'.redial = "no" => (conn' \in {"open", "lost"} /\ read_buffer' = read_buffer)
           /\ get_data'.redial = "ok" => conn' = "open"
           /\ get_data'.redial = "failed" => conn' = "none"]_vars

\* C31 witness: a call with reconnect_on_failure set, made on an open
\* transport, has returned b'' after its read gave nothing, and the transport
\* it closed is open again.
C31_Witness ==
    /\ get_data.at = "none"
    /\ get_data.before = "open"
    /\ get_data.detected
    /\ get_data.reconnect
    /\ get_data.redial = "ok"
    /\ get_data.ret = <<>>
    /\ caller[Reader] = "ret"
    /\ conn = "open"

\* ------------------------------------------------------------------ C32
\* The bytes async_ensure_header has had in read_buffer so far
Received == SubSeq(stream, 1, Len(stream) - Len(rx) - Len(wire))

\* C32: whenever async_ensure_header goes on to read after a scan that did
\* not find the header, read_buffer is empty for a one-byte header and is, for
\* a longer header, the last len(header) - 1 of the bytes received (all of
\* them when there are fewer); no occurrence of the header has been passed
\* over, so a header that arrives in pieces is found once its last piece
\* is in.
C32_KeepsPartialHeader ==
    caller["a"] = "h_read" =>
        /\ Len(header) = 1 => read_buffer = <<>>
        /\ Len(header) > 1 =>
              LET n == Min(Len(header) - 1, Len(Received))
              IN read_buffer = SubSeq(Received, Len(Received) - n + 1, Len(Received))
        /\ Find(Received, header) = 0

\* C32 witness: after a scan of four bytes the last two, which begin the
\* three-byte header, are kept, and the byte that completes the header is
\* still to arrive.
C32_Witness ==
    /\ caller["a"] = "h_read"
    /\ header = <<128, 0, 163>>
    /\ Len(Received) = 4
    /\ read_buffer = <<128, 0>>
    /\ rx \o wire = <<163>>

\* ------------------------------------------------------------------ C33
\* C33: the request frame built for a command has, as its temperature byte,
\* temp - 15 when 18 < temp <= 30 and 10 for every other temp, so a value in
\* 4..15; the frame has 8 bytes, each in 0..255, begins with the writer magic
\* and passes is_checksum_ok.
C33_TemperatureByte ==
    (cmd # <<>> /\ packet # <<>>) =>
        LET sent == Encoded(cmd)
            temp == cmd[7]
        IN /\ sent[7] = IF 18 < temp /\ temp <= 30 THEN temp - 15 ELSE 10
           /\ sent[7] \in 4..15
           /\ Len(sent) = 8
           /\ \A k \in 1..8 : sent[k] \in 0..255
           /\ SubSeq(sent, 1, 3) = WRITER_HEADER_MAGIC
           /\ is_checksum_ok(sent)

\* C33 witness: a frame was built for 31 degrees, one above the range, and
\* carries the sentinel.
C33_Witness ==
    /\ cmd # <<>> /\ packet # <<>>
    /\ cmd[7] = 31
    /\ packet = Encoded(cmd)
    /\ packet[7] = 10


\* ---------------------------------------------------------------------------
\* Reading the temperature byte of a frame back
\* ---------------------------------------------------------------------------

\* LGACBody.unpack_struct(data): data is the 5 bytes after the 3-byte header
\* (action, groupandid, current_mode, set_temp, checksum), and
\* self.set_temp = (self.set_temp & 0x0f) + 0x0f.  LGACPacket.set_packet_data
\* applies the same rule to byte 8 of a status frame.
unpack_struct(data) ==
    [ action       |-> data[1],
      groupandid   |-> data[2],
      current_mode |-> data[3],
      set_temp     |-> (data[4] % 16) + 15,
      checksum     |-> data[5] ]

\* Discovery.__init__: min_temp = 18, max_temp = 30 (Config.min_temp and
\* Config.max_temp have the same defaults).
min_temp == 18
max_temp == 30

\* C40: for every target temperature from 18 to 30 inclusive, the temperature
\* read back from the write frame by (byte & 0x0F) + 0x0F is the temperature
\* that was encoded.
C40_SettableRangeRoundTrip ==
    (cmd # <<>> /\ packet = Encoded(cmd) /\ cmd[7] \in min_temp..max_temp) =>
        unpack_struct(SubSeq(packet, 4, 8)).set_temp = cmd[7]


\* ---------------------------------------------------------------------------
\* Replies and the transactions they answer
\* ---------------------------------------------------------------------------

\* C34: a frame returned by a transaction addressed to device id N arrived in
\* answer to the request of that transaction: the reply an earlier
\* transaction left unread is never the result of a later transaction for
\* another device.  The peer answers a request for N with the frame of unit
\* N (byte 5), so a returned frame of another unit is a reply to an earlier
\* request.
C34_ReplyAnswersOwnRequest ==
    \A t \in Tasks : res[t] # None => res[t][5] = arg[t].no


\* ---------------------------------------------------------------------------
\* The stream after a forced close
\* ---------------------------------------------------------------------------

\* A reply arrives in one segment or in two: its first half is delivered on
\* its own.
HalfFrame == RESPONSE_PACKET_SIZE \div 2

DeliverSegment == \E k \in {HalfFrame, Len(wire)} : Deliver(k)

\* The scan thread and the bootstrap scan over one room, with the counted
\* failures recorded and replies that may arrive in two segments.
StaleNext ==
    \/ \E t \in {"S", "D"} : TaskStep(t)
    \/ Scheduler \/ Discovery
    \/ (\E n \in {"up", "refused", "silent"} : EnvChange(n)) \/ DeliverSegment

StaleSpec == InitWith("errors", FALSE, OneRoom) /\ [][StaleNext]_vars

\* The first transaction that reads after handle_max_read_error() closed the
\* transport is about to hunt.
FirstHuntAfterClose == after_close = "first" /\ \E t \in Tasks : pc[t] = "hunt0"

\* C35: when the first transaction after a forced close begins hunting, the
\* accumulation buffer of the engine holds no byte: nothing received on the
\* closed connection can take part in a frame returned later.
C35_CleanStreamAfterForcedClose ==
    FirstHuntAfterClose => recv_buffer = <<>>


\* ---------------------------------------------------------------------------
\* Release of the single-flight lock
\* ---------------------------------------------------------------------------

\* Task t is inside "async with self._lock" or waits to enter it.
InCall(t) == pc[t] \in TxSteps \cup {"lockwait"}

\* C36: the lock is released at the end of every transaction, whatever its
\* outcome: when no transaction is running the lock is free and nobody
\* waits for it; a holder that leaves its transaction no longer holds the
\* lock; and a caller that finds the lock free acquires it at once.
C36_LockReleasedOnEveryOutcome ==
    /\ []((\A t \in Tasks : pc[t] \notin TxSteps) => (lock = NoTask /\ waiters = <<>>))
    /\ [][ \A t \in Tasks :
             /\ (pc[t] \in TxSteps /\ pc'[t] \notin TxSteps) => lock' # t
             /\ (~InCall(t) /\ InCall(t)' /\ lock = NoTask) => (lock' = t /\ pc'[t] = "connect")
       ]_vars

\* C36 witness: the call of the scan thread has ended with no result and no
\* counted failure, that is by the 5-second timeout, while the transport is
\* open; no transaction is running and the lock is free.
C36_Witness ==
    /\ pc["S"] = "ret" /\ res["S"] = None /\ fail_run = 0
    /\ conn = "open"
    /\ \A t \in Tasks : ~InCall(t)
    /\ lock = NoTask


\* ---------------------------------------------------------------------------
\* Offline publications of the scan thread
\* ---------------------------------------------------------------------------

\* The scan thread publishes device d as offline in this step.
PublishesOffline(d) ==
    /\ pc["S"] = "ret" /\ pc'["S"] = "scan" /\ idx = d
    /\ last_availability_status[d] # "offline"
    /\ last_availability_status'[d] = "offline"

StatusRequest(no) == Encoded(<<0, no, "status", "", "", "", 25>>)

\* C38: for every registered device, whatever its key from 00 to 0f, the
\* status transaction the scheduler issues for it when it is due carries in
\* the low 4 bits of the group+id byte the id that prepare_enabled derived
\* from the key by int(key, 16).
C38_RequestCarriesRegistryId ==
    [][ (ConsidersDevice /\ Due(idx)) =>
            /\ InCall("S")'
            /\ StatusRequest(arg'["S"].no)[4] % 16 = ParseHex(rooms[idx])
      ]_vars


\* ---------------------------------------------------------------------------
\* The scan thread in the long run
\* ---------------------------------------------------------------------------

\* Hub.async_scan_thread as S_Tick, with a clock that never stops: the due
\* test reads only now - tick, so when the sampled value n passes MaxClock
\* the clock and every tick are moved back by the excess (a tick never
\* below 0, which keeps its device due).
S_TickAt(n) ==
    /\ pc["S"] = "sleep"
    /\ LET excess == IF n > MaxClock THEN n - MaxClock ELSE 0 IN
          /\ now' = n - excess
          /\ tick' = [d \in DOMAIN rooms |-> IF tick[d] < excess THEN 0 ELSE tick[d] - excess]
    /\ idx' = 1
    /\ pc' = [pc EXCEPT !["S"] = "scan"]
    /\ UNCHANGED <<cfgvars, arg, res, lockvars, commvars, envvars, engvars, queuevars,
                   pos, availvars, histvars>>

\* time.monotonic() returns what it returned at the last tick, or more.
S_TickOn == \E n \in now..(MaxClock + 1) : S_TickAt(n)

\* More than one clock unit has passed since the last tick.
S_TickLater == \E n \in (now + 1)..(MaxClock + 1) : S_TickAt(n)

\* The scan thread alone on the bus, over two rooms, with free network
\* changes.
PollNext ==
    \/ TaskStep("S")
    \/ S_TickOn \/ S_Skip \/ S_Select \/ S_EndPass \/ S_After
    \/ Environment

\* The event loop runs the scan thread whenever it is ready and fires its
\* timers, and the clock moves on between ticks: asyncio.sleep of
\* async_scan_thread takes time.
PollFairness ==
    /\ WF_vars(TaskStep("S"))
    /\ WF_vars(S_TickOn \/ S_Skip \/ S_Select \/ S_EndPass \/ S_After)
    /\ SF_vars(S_TickLater)

PollSpec == InitWith("none", FALSE, TwoRooms) /\ [][PollNext]_vars /\ PollFairness

\* The scan thread is in a status transaction for device d.
Polling(d) == pc["S"] \in TxSteps /\ idx = d

\* C39: under fair scheduling a status transaction is attempted for every
\* registered device infinitely often, also when the transactions for other
\* devices keep timing out, failing or raising errors.
C39_EveryDevicePolledForever ==
    \A d \in 1..2 : []<>Polling(d)

====
